---- MODULE Spec2Model ----
(***************************************************************************)
(* A model of the go-weiroll planner: staging of calls (Add, AddSubplan,   *)
(* ReplaceState), the compile (Plan) with its liveness pass, slot          *)
(* allocator and command encoder.                                          *)
(*                                                                         *)
(* Conventions.  Go slices are sequences; a Go index i is kept 0-based in  *)
(* every value that carries one (command indices, slot numbers) and reads  *)
(* element i+1 of the sequence.  A *Command pointer is the pair            *)
(* <<planner, index>>: commands are only ever appended.  A []byte is a     *)
(* sequence of numbers 0..255; the nil slice is <<>>.                      *)
(***************************************************************************)
EXTENDS Integers, Sequences, FiniteSets, TLC

VARIABLES
    commands,   \* commands[p]: Planner.commands of planner p
    parent,     \* parent[p]: Planner.parent of planner p (NoPlanner = nil)
    last        \* the most recent API call and what it returned

vars == <<commands, parent, last>>

(***************************************************************************)
(* Bounds of the model.                                                    *)
(***************************************************************************)
NumPlanners == 3        \* planners that exist
MaxCmds == 4            \* commands staged on the planner under Spec
Reach == 2              \* how many commands back a staged call takes outputs from
SmallCeiling == 3       \* the slot ceiling of the option list with a low ceiling
FewCommands == 2        \* the command limit of the option list with a low limit
MaxNestCmds == 3        \* commands staged in all under SpecNest
WideFill == 29          \* fresh literals of the last wide command, least
MaxTail == 2            \* small commands after the wide ones under SpecBig
LowerCeiling == 126     \* the slot ceiling of SpecBig's option list with a ceiling
LiteralStride == 100    \* wide command j takes the literals LiteralStride * j + 1..
MaxEncArgs == 39        \* slot bytes handed to the encoder, at most
MaxMods == 2            \* modifiers a staged call went through, at most
MaxCallCmds == 2        \* commands staged on the planner under SpecCalls
MaxHeap == 4            \* calls made under SpecMod, at most
MaxVisCmds == 3         \* commands staged on planner 1 under SpecVis

(***************************************************************************)
(* Command encoding constants.                                             *)
(***************************************************************************)
CommandSize == 32
ExtendedCommandSize == 64
MaxStandardArgs == 6
MaxExtendedArgs == 32
MaxStateSlots == 127
DynamicSlotFlag == 128
StateSlotMarker == 254
NoReturnSlot == 255
UnusedSlot == 255

FlagDelegateCall == 0
FlagCall == 1
FlagStaticCall == 2
FlagCallWithValue == 3
FlagCallTypeMask == 3
FlagExtendedCommand == 64
FlagTupleReturn == 128

DefaultMaxCommands == 256

MaxUint8 == 255         \* nextSlot is a uint8
NoPlanner == 0
Planners == 1..NumPlanners

(***************************************************************************)
(* uint8 arithmetic.  mask is a single bit (64 or 128) in HasBit / OrBit.  *)
(***************************************************************************)
HasBit(b, mask) == (b \div mask) % 2 = 1
OrBit(b, mask) == IF HasBit(b, mask) THEN b ELSE (b + mask) % 256
ClearBit(b, mask) == IF HasBit(b, mask) THEN b - mask ELSE b

\* f & FlagCallTypeMask
CallType(f) == f % 4
\* f & FlagExtendedCommand != 0
IsExtended(f) == HasBit(f, FlagExtendedCommand)
\* f & FlagTupleReturn != 0
HasTupleReturn(f) == HasBit(f, FlagTupleReturn)
\* (f &^ FlagCallTypeMask) | kind
SetCallType(f, kind) == (f \div 4) * 4 + kind

Max(S) == CHOOSE x \in S : \A y \in S : y <= x
Min(S) == CHOOSE x \in S : \A y \in S : x <= y
Range(s) == {s[k] : k \in DOMAIN s}

(***************************************************************************)
(* Errors.  Every error is a record tagged by its kind; the nil error is   *)
(* NoErr.  Two errors are the same Go error value iff the records are      *)
(* equal.                                                                  *)
(***************************************************************************)
NoErr == [kind |-> "nil"]
ErrCyclicPlanner == [kind |-> "ErrCyclicPlanner"]
ErrInvalidSubplan == [kind |-> "ErrInvalidSubplan"]
ErrSlotExhausted == [kind |-> "ErrSlotExhausted"]
ErrTooManyArguments == [kind |-> "ErrTooManyArguments"]
ErrReturnValueNotVisible == [kind |-> "ErrReturnValueNotVisible"]
ErrInvalidCallType == [kind |-> "ErrInvalidCallType"]
ErrNoReturnValue == [kind |-> "ErrNoReturnValue"]

IsErr(e) == e.kind # "nil"

\* Sensitivity variant of PlanError: the index of the first command.
PlanErrorAtZero(i, method, err) ==
    [kind |-> "PlanError", CommandIndex |-> 0, Method |-> method, Err |-> err]

PlanError(i, method, err) ==
    [kind |-> "PlanError", CommandIndex |-> i, Method |-> method, Err |-> err]
TypeMismatchError(expected, got) ==
    [kind |-> "TypeMismatchError", Expected |-> expected, Got |-> got]
ArgumentError(method, index, err) ==
    [kind |-> "ArgumentError", Method |-> method, Index |-> index, Err |-> err]
EncodingError(err) == [kind |-> "EncodingError", Err |-> err]

(***************************************************************************)
(* ABI types, by their type string.  isDynamicType switches on the kind of *)
(* the type; the model's ABI has no fixed arrays and no tuples.            *)
(***************************************************************************)
TypeKind(t) ==
    CASE t = "string" -> "StringTy"
      [] t = "bytes" -> "BytesTy"
      [] t \in {"bytes32[]", "bytes[]", "uint256[]"} -> "SliceTy"
      [] t = "bool" -> "BoolTy"
      [] t = "address" -> "AddressTy"
      [] OTHER -> "UintTy"

isDynamicType(t) == TypeKind(t) \in {"StringTy", "BytesTy", "SliceTy"}

(***************************************************************************)
(* ABI packing of the literals the model uses.  A 32-byte word holding the *)
(* number n (n < 2^24) big-endian; a dynamic payload is the length word    *)
(* followed by the bytes right-padded to a multiple of 32 (the offset word *)
(* that Pack puts first is stripped by NewLiteral).                        *)
(***************************************************************************)
Word(n) ==
    [k \in 1..32 |-> IF k = 32 THEN n % 256
                     ELSE IF k = 31 THEN (n \div 256) % 256
                     ELSE IF k = 30 THEN (n \div 65536) % 256
                     ELSE 0]

PadRight(bs) ==
    LET n == ((Len(bs) + 31) \div 32) * 32
    IN  [k \in 1..n |-> IF k <= Len(bs) THEN bs[k] ELSE 0]

\* args.Pack of one value of the type
Pack(abiType, v) ==
    IF isDynamicType(abiType)
    THEN Word(32) \o Word(Len(v)) \o PadRight(v)
    ELSE Word(v)

NewLiteral(abiType, v) ==
    LET data == Pack(abiType, v)
    IN  [kind |-> "lit",
         abiType |-> abiType,
         data |-> IF isDynamicType(abiType) /\ Len(data) > 32
                  THEN SubSeq(data, 33, Len(data))
                  ELSE data]

Uint256(n) == NewLiteral("uint256", n)
Bool(b) == NewLiteral("bool", IF b THEN 1 ELSE 0)
String(s) == NewLiteral("string", s)
Bytes(bs) == NewLiteral("bytes", bs)

(***************************************************************************)
(* Values.  ReturnValue names its producing command; StateValue and        *)
(* SubplanValue name a planner.                                            *)
(***************************************************************************)
ReturnValue(cmdId, abiType) ==
    [kind |-> "ret", command |-> cmdId, abiType |-> abiType, index |-> 0]
StateValue(p) == [kind |-> "state", planner |-> p]
SubplanValue(p) == [kind |-> "subplan", subplanner |-> p]

ValueIsDynamic(v) ==
    CASE v.kind = "lit" -> isDynamicType(v.abiType)
      [] v.kind = "ret" -> isDynamicType(v.abiType)
      [] OTHER -> TRUE

ValueType(v) ==
    CASE v.kind = "lit" -> v.abiType
      [] v.kind = "ret" -> v.abiType
      [] v.kind = "state" -> "bytes[]"
      [] OTHER -> "bytes32[]"

(***************************************************************************)
(* Contracts and the methods of the ABIs used.                             *)
(***************************************************************************)
Addr(b) == [k \in 1..20 |-> b]

NewLibrary(address) == [address |-> address, contractType |-> "Library"]
NewContract(address) == [address |-> address, contractType |-> "External"]
WithStaticCalls(c) == [c EXCEPT !.contractType = "StaticExternal"]

defaultFlags(c) ==
    CASE c.contractType = "Library" -> FlagDelegateCall
      [] c.contractType = "StaticExternal" -> FlagStaticCall
      [] OTHER -> FlagCall

U32 == [k \in 1..32 |-> "uint256"]

\* name, 4-byte ID, input types, output types.  The IDs of add, multiply and
\* subtract are the selectors the integration test logs; the others stand for
\* the hashes go-ethereum derives, distinct per method.
Methods ==
    [add |-> [Name |-> "add", ID |-> <<119, 22, 2, 247>>,
              Inputs |-> <<"uint256", "uint256">>, Outputs |-> <<"uint256">>],
     multiply |-> [Name |-> "multiply", ID |-> <<22, 92, 74, 22>>,
              Inputs |-> <<"uint256", "uint256">>, Outputs |-> <<"uint256">>],
     subtract |-> [Name |-> "subtract", ID |-> <<62, 245, 228, 69>>,
              Inputs |-> <<"uint256", "uint256">>, Outputs |-> <<"uint256">>],
     noReturn |-> [Name |-> "noReturn", ID |-> <<1, 0, 0, 1>>,
              Inputs |-> <<"uint256">>, Outputs |-> <<>>],
     getString |-> [Name |-> "getString", ID |-> <<1, 0, 0, 2>>,
              Inputs |-> <<>>, Outputs |-> <<"string">>],
     setName |-> [Name |-> "setName", ID |-> <<1, 0, 0, 3>>,
              Inputs |-> <<"string">>, Outputs |-> <<>>],
     execute |-> [Name |-> "execute", ID |-> <<1, 0, 0, 4>>,
              Inputs |-> <<"bytes32[]", "bytes[]">>, Outputs |-> <<"bytes[]">>],
     updateState |-> [Name |-> "updateState", ID |-> <<1, 0, 0, 5>>,
              Inputs |-> <<>>, Outputs |-> <<"bytes[]">>],
     sum32 |-> [Name |-> "sum32", ID |-> <<1, 0, 0, 6>>,
              Inputs |-> U32, Outputs |-> <<"uint256">>],
     sum6 |-> [Name |-> "sum6", ID |-> <<1, 0, 0, 7>>,
              Inputs |-> SubSeq(U32, 1, 6), Outputs |-> <<"uint256">>],
     snapshot |-> [Name |-> "snapshot", ID |-> <<1, 0, 0, 8>>,
              Inputs |-> <<>>, Outputs |-> <<"bytes[]", "uint256">>],
     count |-> [Name |-> "count", ID |-> <<1, 0, 0, 9>>,
              Inputs |-> <<>>, Outputs |-> <<"uint256", "bytes[]">>]]

(***************************************************************************)
(* Calls.                                                                  *)
(***************************************************************************)
NoValue == -1          \* Call.value == nil
NilValue == [kind |-> "nil"]

\* a plain Go datum handed to Invoke: a number or a byte string
Go(v) == [kind |-> "go", v |-> v]

toValue(v, expectedType) ==
    IF v.kind # "go"
    THEN IF ValueType(v) # expectedType
         THEN [val |-> NilValue,
               err |-> TypeMismatchError(expectedType, ValueType(v))]
         ELSE [val |-> v, err |-> NoErr]
    ELSE [val |-> NewLiteral(expectedType, v.v), err |-> NoErr]

RECURSIVE convertArgs(_, _, _, _)
convertArgs(method, rawArgs, k, acc) ==
    IF k > Len(rawArgs) THEN [args |-> acc, err |-> NoErr]
    ELSE LET r == toValue(rawArgs[k], method.Inputs[k])
         IN  IF IsErr(r.err)
             THEN [args |-> <<>>, err |-> ArgumentError(method.Name, k - 1, r.err)]
             ELSE convertArgs(method, rawArgs, k + 1, Append(acc, r.val))

newCall(contract, method, rawArgs) ==
    IF Len(rawArgs) # Len(method.Inputs)
    THEN [call |-> NilValue,
          err |-> ArgumentError(method.Name, Len(rawArgs), ErrTooManyArguments)]
    ELSE LET r == convertArgs(method, rawArgs, 1, <<>>)
         IN  IF IsErr(r.err)
             THEN [call |-> NilValue, err |-> r.err]
             ELSE [call |-> [contract |-> contract,
                             method |-> method,
                             args |-> r.args,
                             flags |-> defaultFlags(contract),
                             value |-> NoValue,
                             rawReturn |-> FALSE],
                   err |-> NoErr]

\* Contract.MustInvoke on a method the ABI has
MustInvoke(contract, method, rawArgs) == newCall(contract, method, rawArgs).call

HasReturnValue(call) == Len(call.method.Outputs) > 0
ReturnType(call) == call.method.Outputs[1]
Selector(call) == SubSeq(call.method.ID, 1, 4)

WithValue(call, amount) ==
    [call EXCEPT !.value = amount,
                 !.flags = SetCallType(call.flags, FlagCallWithValue)]

Static(call) ==
    [call EXCEPT !.flags = SetCallType(call.flags, FlagStaticCall)]

RawReturn(call) ==
    [call EXCEPT !.rawReturn = TRUE,
                 !.flags = OrBit(call.flags, FlagTupleReturn)]

validate(call) ==
    LET callType == CallType(call.flags)
        hasValue == call.value # NoValue /\ call.value > 0
    IN  IF hasValue /\ callType # FlagCallWithValue THEN ErrInvalidCallType
        ELSE IF callType = FlagDelegateCall /\ hasValue THEN ErrInvalidCallType
        ELSE IF callType = FlagStaticCall /\ hasValue THEN ErrInvalidCallType
        ELSE NoErr

computeFlags(call, isExtended) ==
    LET f1 == IF isExtended THEN OrBit(call.flags, FlagExtendedCommand)
              ELSE call.flags
    IN  IF call.rawReturn THEN OrBit(f1, FlagTupleReturn) ELSE f1

(***************************************************************************)
(* The command encoder.                                                    *)
(***************************************************************************)
Encode(selector, flags, argSlots, returnSlot, address) ==
    [k \in 1..CommandSize |->
        IF k <= 4 THEN selector[k]
        ELSE IF k = 5 THEN flags
        ELSE IF k <= 5 + MaxStandardArgs
             THEN IF k - 5 <= Len(argSlots) THEN argSlots[k - 5] ELSE UnusedSlot
        ELSE IF k = 12 THEN returnSlot
        ELSE address[k - 12]]

\* Sensitivity variant of EncodeExtended: the second word starts one
\* argument late.
EncodeExtendedLate(selector, flags, argSlots, returnSlot, address) ==
    [k \in 1..ExtendedCommandSize |->
        IF k <= 4 THEN selector[k]
        ELSE IF k = 5 THEN OrBit(flags, FlagExtendedCommand)
        ELSE IF k <= 5 + MaxStandardArgs
             THEN IF k - 5 <= Len(argSlots) THEN argSlots[k - 5] ELSE UnusedSlot
        ELSE IF k = 12 THEN returnSlot
        ELSE IF k <= 32 THEN address[k - 12]
        ELSE IF MaxStandardArgs + (k - 32) + 1 <= Len(argSlots)
             THEN argSlots[MaxStandardArgs + (k - 32) + 1]
             ELSE UnusedSlot]

EncodeExtended(selector, flags, argSlots, returnSlot, address) ==
    [k \in 1..ExtendedCommandSize |->
        IF k <= 4 THEN selector[k]
        ELSE IF k = 5 THEN OrBit(flags, FlagExtendedCommand)
        ELSE IF k <= 5 + MaxStandardArgs
             THEN IF k - 5 <= Len(argSlots) THEN argSlots[k - 5] ELSE UnusedSlot
        ELSE IF k = 12 THEN returnSlot
        ELSE IF k <= 32 THEN address[k - 12]
        ELSE IF MaxStandardArgs + (k - 32) <= Len(argSlots)
             THEN argSlots[MaxStandardArgs + (k - 32)]
             ELSE UnusedSlot]

\* Sensitivity variant of EncodeCommand: the extended form is chosen one
\* argument early.
EncodeCommandEarly(selector, flags, argSlots, returnSlot, address) ==
    IF Len(argSlots) > MaxExtendedArgs
    THEN [bytes |-> <<>>, err |-> ErrTooManyArguments]
    ELSE IF Len(argSlots) < MaxStandardArgs
    THEN [bytes |-> Encode(selector, flags, argSlots, returnSlot, address),
          err |-> NoErr]
    ELSE [bytes |-> EncodeExtended(selector, flags, argSlots, returnSlot, address),
          err |-> NoErr]

EncodeCommand(selector, flags, argSlots, returnSlot, address) ==
    IF Len(argSlots) > MaxExtendedArgs
    THEN [bytes |-> <<>>, err |-> ErrTooManyArguments]
    ELSE IF Len(argSlots) <= MaxStandardArgs
    THEN [bytes |-> Encode(selector, flags, argSlots, returnSlot, address),
          err |-> NoErr]
    ELSE [bytes |-> EncodeExtended(selector, flags, argSlots, returnSlot, address),
          err |-> NoErr]

\* the bytes of cmd at offsets from..to (0-based) that are not the padding
Used(cmd, from, to) ==
    SelectSeq(SubSeq(cmd, from + 1, to + 1), LAMBDA b : b # UnusedSlot)

NoDecoding ==
    [selector |-> <<0, 0, 0, 0>>, flags |-> 0, argSlots |-> <<>>,
     returnSlot |-> 0, address |-> [k \in 1..20 |-> 0]]

\* [selector, flags, argSlots, returnSlot, address, err]
DecodeCommand(cmd) ==
    IF Len(cmd) < CommandSize
    THEN NoDecoding @@ [err |-> ErrTooManyArguments]
    ELSE [selector |-> SubSeq(cmd, 1, 4),
          flags |-> cmd[5],
          argSlots |->
              IF IsExtended(cmd[5]) /\ Len(cmd) >= ExtendedCommandSize
              THEN Used(cmd, 5, 4 + MaxStandardArgs)
                       \o Used(cmd, CommandSize, ExtendedCommandSize - 1)
              ELSE Used(cmd, 5, 4 + MaxStandardArgs),
          returnSlot |-> cmd[6 + MaxStandardArgs],
          address |-> SubSeq(cmd, 13, CommandSize),
          err |-> NoErr]

(***************************************************************************)
(* Plan options.                                                           *)
(***************************************************************************)
defaultPlanConfig ==
    [optimizeSlots |-> TRUE,
     maxCommands |-> DefaultMaxCommands,
     maxStateSlots |-> MaxStateSlots]

WithSlotOptimization(c, enabled) == [c EXCEPT !.optimizeSlots = enabled]
WithMaxCommands(c, max) == [c EXCEPT !.maxCommands = max]
WithMaxStateSlots(c, max) ==
    [c EXCEPT !.maxStateSlots = IF max > MaxStateSlots THEN MaxStateSlots ELSE max]

\* one PlanOption applied to a config
ApplyOption(c, opt) ==
    CASE opt.name = "WithSlotOptimization" -> WithSlotOptimization(c, opt.arg)
      [] opt.name = "WithMaxCommands" -> WithMaxCommands(c, opt.arg)
      [] OTHER -> WithMaxStateSlots(c, opt.arg)

RECURSIVE ApplyOptions(_, _)
ApplyOptions(c, opts) ==
    IF opts = <<>> THEN c
    ELSE ApplyOptions(ApplyOption(c, Head(opts)), Tail(opts))

(***************************************************************************)
(* The state manager.  allocs counts the calls of allocateSlot that        *)
(* returned a slot; it is an observation of the run and nothing reads it.  *)
(***************************************************************************)
newStateManager(config) ==
    [state |-> <<>>,
     literalSlotMap |-> <<>>,
     returnSlotMap |-> <<>>,
     freeSlots |-> <<>>,
     stateExpirations |-> <<>>,
     config |-> config,
     nextSlot |-> 0,
     allocs |-> 0]

\* hex.EncodeToString: two hexadecimal digits per byte
HexEncode(data) ==
    [k \in 1..(2 * Len(data)) |->
        IF k % 2 = 1 THEN data[(k + 1) \div 2] \div 16 ELSE data[k \div 2] % 16]

\* Sensitivity variant of allocateSlot: the ceiling test is off by one.
allocateSlotLax(sm) ==
    IF sm.config.optimizeSlots /\ Len(sm.freeSlots) > 0
    THEN [sm |-> [sm EXCEPT !.freeSlots = SubSeq(sm.freeSlots, 1, Len(sm.freeSlots) - 1),
                            !.allocs = sm.allocs + 1],
          slot |-> sm.freeSlots[Len(sm.freeSlots)],
          err |-> NoErr]
    ELSE IF sm.nextSlot > sm.config.maxStateSlots
    THEN [sm |-> sm, slot |-> 0, err |-> ErrSlotExhausted]
    ELSE [sm |-> [sm EXCEPT !.nextSlot = (sm.nextSlot + 1) % 256,
                            !.state = Append(sm.state, <<>>),
                            !.allocs = sm.allocs + 1],
          slot |-> sm.nextSlot,
          err |-> NoErr]

\* Sensitivity variant of allocateSlot: with slot optimization the last slot
\* under the ceiling is never created.
allocateSlotReserve(sm) ==
    IF sm.config.optimizeSlots /\ Len(sm.freeSlots) > 0
    THEN [sm |-> [sm EXCEPT !.freeSlots = SubSeq(sm.freeSlots, 1, Len(sm.freeSlots) - 1),
                            !.allocs = sm.allocs + 1],
          slot |-> sm.freeSlots[Len(sm.freeSlots)],
          err |-> NoErr]
    ELSE IF sm.nextSlot + (IF sm.config.optimizeSlots THEN 1 ELSE 0)
                >= sm.config.maxStateSlots
    THEN [sm |-> sm, slot |-> 0, err |-> ErrSlotExhausted]
    ELSE [sm |-> [sm EXCEPT !.nextSlot = (sm.nextSlot + 1) % 256,
                            !.state = Append(sm.state, <<>>),
                            !.allocs = sm.allocs + 1],
          slot |-> sm.nextSlot,
          err |-> NoErr]

\* Sensitivity variant of allocateSlot: the pool is served from its front,
\* the slot freed first.
allocateSlotOldest(sm) ==
    IF sm.config.optimizeSlots /\ Len(sm.freeSlots) > 0
    THEN [sm |-> [sm EXCEPT !.freeSlots = Tail(sm.freeSlots),
                            !.allocs = sm.allocs + 1],
          slot |-> Head(sm.freeSlots),
          err |-> NoErr]
    ELSE IF sm.nextSlot >= sm.config.maxStateSlots
    THEN [sm |-> sm, slot |-> 0, err |-> ErrSlotExhausted]
    ELSE [sm |-> [sm EXCEPT !.nextSlot = (sm.nextSlot + 1) % 256,
                            !.state = Append(sm.state, <<>>),
                            !.allocs = sm.allocs + 1],
          slot |-> sm.nextSlot,
          err |-> NoErr]

allocateSlot(sm) ==
    IF sm.config.optimizeSlots /\ Len(sm.freeSlots) > 0
    THEN [sm |-> [sm EXCEPT !.freeSlots = SubSeq(sm.freeSlots, 1, Len(sm.freeSlots) - 1),
                            !.allocs = sm.allocs + 1],
          slot |-> sm.freeSlots[Len(sm.freeSlots)],
          err |-> NoErr]
    ELSE IF sm.nextSlot >= sm.config.maxStateSlots
    THEN [sm |-> sm, slot |-> 0, err |-> ErrSlotExhausted]
    ELSE [sm |-> [sm EXCEPT !.nextSlot = (sm.nextSlot + 1) % 256,
                            !.state = Append(sm.state, <<>>),
                            !.allocs = sm.allocs + 1],
          slot |-> sm.nextSlot,
          err |-> NoErr]

\* the slot byte of slot index slot holding a value of the given dynamism
slotByte(slot, dyn) == IF dyn THEN OrBit(slot, DynamicSlotFlag) ELSE slot

\* Sensitivity variant of allocateLiteral: no lookup of the payload.
allocateLiteralFresh(sm, lit) ==
    LET store(r) ==
            IF IsErr(r.err) THEN [sm |-> sm, slot |-> 0, err |-> r.err]
            ELSE [sm |-> [r.sm EXCEPT
                            !.state = [r.sm.state EXCEPT ![r.slot + 1] = lit.data]],
                  slot |-> slotByte(r.slot, isDynamicType(lit.abiType)),
                  err |-> NoErr]
    IN  store(allocateSlot(sm))

allocateLiteral(sm, lit) ==
    LET store(key, dyn, r) ==
            IF IsErr(r.err) THEN [sm |-> sm, slot |-> 0, err |-> r.err]
            ELSE [sm |-> [r.sm EXCEPT
                            !.state = [r.sm.state EXCEPT ![r.slot + 1] = lit.data],
                            !.literalSlotMap = (key :> r.slot) @@ r.sm.literalSlotMap],
                  slot |-> slotByte(r.slot, dyn),
                  err |-> NoErr]
        lookup(key, dyn) ==
            IF key \in DOMAIN sm.literalSlotMap
            THEN [sm |-> sm,
                  slot |-> slotByte(sm.literalSlotMap[key], dyn),
                  err |-> NoErr]
            ELSE store(key, dyn, allocateSlot(sm))
    IN  lookup(HexEncode(lit.data), isDynamicType(lit.abiType))

\* Sensitivity variant of allocateReturn: the slot is scheduled to expire
\* at the command that produces the value.
allocateReturnBrief(sm, cmd, lastUsage, isDynamic) ==
    LET old(m) == IF cmd[2] \in DOMAIN m THEN m[cmd[2]] ELSE <<>>
        expire(sm1, slot) ==
            IF sm1.config.optimizeSlots
            THEN [sm1 EXCEPT !.stateExpirations =
                     (cmd[2] :> Append(old(sm1.stateExpirations), slot))
                         @@ sm1.stateExpirations]
            ELSE sm1
        record(r) ==
            IF IsErr(r.err) THEN [sm |-> sm, slot |-> 0, err |-> r.err]
            ELSE [sm |-> expire([r.sm EXCEPT !.returnSlotMap =
                                    (cmd :> r.slot) @@ r.sm.returnSlotMap], r.slot),
                  slot |-> slotByte(r.slot, isDynamic),
                  err |-> NoErr]
    IN  record(allocateSlot(sm))

allocateReturn(sm, cmd, lastUsage, isDynamic) ==
    LET old(m) == IF lastUsage \in DOMAIN m THEN m[lastUsage] ELSE <<>>
        expire(sm1, slot) ==
            IF sm1.config.optimizeSlots
            THEN [sm1 EXCEPT !.stateExpirations =
                     (lastUsage :> Append(old(sm1.stateExpirations), slot))
                         @@ sm1.stateExpirations]
            ELSE sm1
        record(r) ==
            IF IsErr(r.err) THEN [sm |-> sm, slot |-> 0, err |-> r.err]
            ELSE [sm |-> expire([r.sm EXCEPT !.returnSlotMap =
                                    (cmd :> r.slot) @@ r.sm.returnSlotMap], r.slot),
                  slot |-> slotByte(r.slot, isDynamic),
                  err |-> NoErr]
    IN  record(allocateSlot(sm))

\* Sensitivity variant of expireSlots: slots are freed one command early.
expireSlotsEarly(sm, commandIndex) ==
    IF commandIndex + 1 \in DOMAIN sm.stateExpirations
    THEN [sm EXCEPT !.freeSlots = sm.freeSlots \o sm.stateExpirations[commandIndex + 1],
                    !.stateExpirations =
                        [k \in DOMAIN sm.stateExpirations \ {commandIndex + 1} |->
                            sm.stateExpirations[k]]]
    ELSE sm

\* Sensitivity variant of expireSlots: no slot is ever freed.
expireSlotsNever(sm, commandIndex) == sm

expireSlots(sm, commandIndex) ==
    IF commandIndex \in DOMAIN sm.stateExpirations
    THEN [sm EXCEPT !.freeSlots = sm.freeSlots \o sm.stateExpirations[commandIndex],
                    !.stateExpirations =
                        [k \in DOMAIN sm.stateExpirations \ {commandIndex} |->
                            sm.stateExpirations[k]]]
    ELSE sm

\* Sensitivity variant of getSlotForValue: an output without a slot is read
\* from slot 0.
getSlotForValueLax(sm, v) ==
    CASE v.kind = "lit" -> allocateLiteral(sm, v)
      [] v.kind = "ret" ->
            IF v.command \notin DOMAIN sm.returnSlotMap
            THEN [sm |-> sm, slot |-> 0, err |-> NoErr]
            ELSE [sm |-> sm,
                  slot |-> slotByte(sm.returnSlotMap[v.command], ValueIsDynamic(v)),
                  err |-> NoErr]
      [] v.kind = "state" -> [sm |-> sm, slot |-> StateSlotMarker, err |-> NoErr]
      [] v.kind = "subplan" -> [sm |-> sm, slot |-> StateSlotMarker, err |-> NoErr]
      [] OTHER -> [sm |-> sm, slot |-> 0,
                   err |-> EncodingError(ErrReturnValueNotVisible)]

getSlotForValue(sm, v) ==
    CASE v.kind = "lit" -> allocateLiteral(sm, v)
      [] v.kind = "ret" ->
            IF v.command \notin DOMAIN sm.returnSlotMap
            THEN [sm |-> sm, slot |-> 0, err |-> ErrReturnValueNotVisible]
            ELSE [sm |-> sm,
                  slot |-> slotByte(sm.returnSlotMap[v.command], ValueIsDynamic(v)),
                  err |-> NoErr]
      [] v.kind = "state" -> [sm |-> sm, slot |-> StateSlotMarker, err |-> NoErr]
      [] v.kind = "subplan" -> [sm |-> sm, slot |-> StateSlotMarker, err |-> NoErr]
      [] OTHER -> [sm |-> sm, slot |-> 0,
                   err |-> EncodingError(ErrReturnValueNotVisible)]

\* Sensitivity variant of finalize: slots without data are left out.
finalizeSkipNil(sm) == SelectSeq(sm.state, LAMBDA d : d # <<>>)

finalize(sm) ==
    [i \in 1..Len(sm.state) |->
        IF sm.state[i] = <<>> THEN [k \in 1..32 |-> 0] ELSE sm.state[i]]

(***************************************************************************)
(* Commands and the planner's compile.                                     *)
(*                                                                         *)
(* A command is [call, cmdType, returnSlot, sub]: sub is the planner that  *)
(* was handed to AddSubplan with the call (NoPlanner otherwise); the Go    *)
(* struct does not keep it and no operation reads it.                      *)
(***************************************************************************)
NewCommand(call, cmdType, sub) ==
    [call |-> call, cmdType |-> cmdType, returnSlot |-> -1, sub |-> sub]

\* Sensitivity variant of Handle: a handle is returned whatever the method
\* returns.
HandleAlways(p, i, call) ==
    ReturnValue(<<p, i>>, IF HasReturnValue(call) THEN ReturnType(call) ELSE "uint256")

\* the handle Add and AddSubplan return for the command at index i of p
Handle(p, i, call) ==
    IF ~HasReturnValue(call) THEN NilValue
    ELSE ReturnValue(<<p, i>>, ReturnType(call))

\* the indices of the commands of cmds taking the output of command id
usersOf(cmds, id) ==
    {i \in 0..(Len(cmds) - 1) :
        \E k \in DOMAIN cmds[i + 1].call.args :
            /\ cmds[i + 1].call.args[k].kind = "ret"
            /\ cmds[i + 1].call.args[k].command = id}

\* Sensitivity variant of visitArgs: an entry once written is kept.
RECURSIVE visitArgsOnce(_, _, _, _)
visitArgsOnce(args, k, i, visibility) ==
    IF k > Len(args) THEN visibility
    ELSE IF args[k].kind # "ret" THEN visitArgsOnce(args, k + 1, i, visibility)
    ELSE IF args[k].command \in DOMAIN visibility
    THEN visitArgsOnce(args, k + 1, i, visibility)
    ELSE visitArgsOnce(args, k + 1, i, (args[k].command :> i) @@ visibility)

\* the inner loop of analyzeVisibility over the arguments of command i:
\* visibility[rv.command] = i for each argument that is a return value
RECURSIVE visitArgs(_, _, _, _)
visitArgs(args, k, i, visibility) ==
    IF k > Len(args) THEN visibility
    ELSE IF args[k].kind # "ret" THEN visitArgs(args, k + 1, i, visibility)
    ELSE IF args[k].command \in DOMAIN visibility
    THEN visitArgs(args, k + 1, i, [visibility EXCEPT ![args[k].command] = i])
    ELSE visitArgs(args, k + 1, i, (args[k].command :> i) @@ visibility)

\* the outer loop of analyzeVisibility over the commands, in index order
\* (the map of a round is compared with itself so that it is evaluated
\* before the next round begins)
RECURSIVE visitCommands(_, _, _)
visitCommands(cmds, i, visibility) ==
    LET round(v) == IF v = v THEN visitCommands(cmds, i + 1, v) ELSE v
    IN  IF i >= Len(cmds) THEN visibility
        ELSE round(visitArgs(cmds[i + 1].call.args, 1, i, visibility))

\* map from command to the index of the last command using its return value
analyzeVisibility(cmds) == visitCommands(cmds, 0, <<>>)

RECURSIVE resolveArgs(_, _, _, _)
resolveArgs(args, k, sm, slots) ==
    LET next(r) ==
            IF IsErr(r.err) THEN [sm |-> r.sm, slots |-> <<>>, err |-> r.err]
            ELSE resolveArgs(args, k + 1, r.sm, Append(slots, r.slot))
    IN  IF k > Len(args) THEN [sm |-> sm, slots |-> slots, err |-> NoErr]
        ELSE next(getSlotForValue(sm, args[k]))

buildArgSlots(cmd, sm) ==
    LET withValue(slots, v) ==
            IF IsErr(v.err) THEN [sm |-> v.sm, slots |-> <<>>, err |-> v.err]
            ELSE [sm |-> v.sm, slots |-> Append(slots, v.slot), err |-> NoErr]
        value(r) ==
            IF IsErr(r.err) THEN r
            ELSE IF cmd.call.value # NoValue /\ cmd.call.value > 0
            THEN withValue(r.slots, allocateLiteral(r.sm, Uint256(cmd.call.value)))
            ELSE r
    IN  value(resolveArgs(cmd.call.args, 1, sm, <<>>))

\* Sensitivity variant of returnSlotByte: the dynamic flag is never set.
returnSlotByteStatic(cmd) ==
    IF cmd.returnSlot >= 0 THEN cmd.returnSlot % 256 ELSE NoReturnSlot

\* the return slot byte of a command whose returnSlot field is set or not
returnSlotByte(cmd) ==
    IF cmd.returnSlot >= 0
    THEN IF HasReturnValue(cmd.call) /\ isDynamicType(ReturnType(cmd.call))
         THEN OrBit(cmd.returnSlot % 256, DynamicSlotFlag)
         ELSE cmd.returnSlot % 256
    ELSE NoReturnSlot

\* whether the loop allocates a return slot for the command
returnUsed(visibility, id) == id \in DOMAIN visibility

\* Sensitivity variant of withReturnSlot: a command keeps the return slot an
\* earlier compile stored on it.
withReturnSlotKept(cmd, slot) ==
    IF cmd.returnSlot >= 0 THEN cmd
    ELSE [cmd EXCEPT !.returnSlot = ClearBit(slot, DynamicSlotFlag)]

\* cmd.returnSlot = int(slot & ^DynamicSlotFlag)
withReturnSlot(cmd, slot) ==
    [cmd EXCEPT !.returnSlot = ClearBit(slot, DynamicSlotFlag)]

\* One iteration of the loop of Plan, on command i of planner p.
\* acc = [cmds, sm, encoded, log, err].
planStep(p, visibility, i, acc) ==
    LET cmd == acc.cmds[i + 1]
        id == <<p, i>>
        fail(cmds1, sm, e) ==
            [acc EXCEPT !.cmds = cmds1, !.sm = sm,
                        !.err = PlanError(i, cmd.call.method.Name, e)]
        emit(cmds1, r2, returnSlot, flags, r3, sm3) ==
            IF IsErr(r3.err) THEN fail(cmds1, r2.sm, r3.err)
            ELSE [cmds |-> cmds1,
                  sm |-> sm3,
                  encoded |-> Append(acc.encoded, r3.bytes),
                  log |-> Append(acc.log,
                             [argSlots |-> r2.slots,
                              returnSlot |-> returnSlot,
                              flags |-> flags,
                              nextSlot |-> sm3.nextSlot,
                              freeBefore |-> acc.sm.freeSlots,
                              freeSlots |-> sm3.freeSlots,
                              allocs |-> sm3.allocs]),
                  err |-> NoErr]
        encode(cmds1, cmd1, r2, returnSlot, flags) ==
            emit(cmds1, r2, returnSlot, flags,
                 EncodeCommand(Selector(cmd1.call), flags, r2.slots, returnSlot,
                               cmd1.call.contract.address),
                 expireSlots(r2.sm, i))
        args(cmds1, cmd1, r2) ==
            IF IsErr(r2.err) THEN fail(cmds1, r2.sm, r2.err)
            ELSE encode(cmds1, cmd1, r2, returnSlotByte(cmd1),
                        computeFlags(cmd1.call, Len(r2.slots) > MaxStandardArgs))
        build(cmd1, sm1) ==
            args([acc.cmds EXCEPT ![i + 1] = cmd1], cmd1, buildArgSlots(cmd1, sm1))
        return(r1) ==
            IF IsErr(r1.err) THEN fail(acc.cmds, acc.sm, r1.err)
            ELSE build(withReturnSlot(cmd, r1.slot), r1.sm)
    IN  IF returnUsed(visibility, id)
        THEN return(allocateReturn(acc.sm, id, visibility[id],
                        HasReturnValue(cmd.call) /\ isDynamicType(ReturnType(cmd.call))))
        ELSE build(cmd, acc.sm)

RECURSIVE planLoop(_, _, _, _)
planLoop(p, visibility, i, acc) ==
    IF IsErr(acc.err) \/ i >= Len(acc.cmds) THEN acc
    ELSE planLoop(p, visibility, i + 1, planStep(p, visibility, i, acc))

NilPlan == [Commands |-> <<>>, State |-> <<>>, isNil |-> TRUE]

\* the error Plan returns for a planner holding more commands than allowed
tooManyCommandsError == ErrTooManyArguments

\* Planner.Plan on the commands cmds of planner p under config cfg:
\* [plan, err, cmds, obs], cmds being the commands as the call leaves them.
PlanResult(p, cmds, cfg) ==
    IF Len(cmds) > cfg.maxCommands
    THEN [plan |-> NilPlan, err |-> tooManyCommandsError, cmds |-> cmds,
          obs |-> [log |-> <<>>, returnSlotMap |-> <<>>, nextSlot |-> 0,
                   freeSlots |-> <<>>, allocs |-> 0]]
    ELSE LET obs(sm, log) ==
                 [log |-> log, returnSlotMap |-> sm.returnSlotMap,
                  nextSlot |-> sm.nextSlot, freeSlots |-> sm.freeSlots,
                  allocs |-> sm.allocs]
             result(acc) ==
                 IF IsErr(acc.err)
                 THEN [plan |-> NilPlan, err |-> acc.err, cmds |-> acc.cmds,
                       obs |-> obs(acc.sm, acc.log)]
                 ELSE [plan |-> [Commands |-> acc.encoded, State |-> finalize(acc.sm),
                                 isNil |-> FALSE],
                       err |-> NoErr, cmds |-> acc.cmds, obs |-> obs(acc.sm, acc.log)]
         IN  result(planLoop(p, analyzeVisibility(cmds), 0,
                             [cmds |-> cmds, sm |-> newStateManager(cfg),
                              encoded |-> <<>>, log |-> <<>>, err |-> NoErr]))

(***************************************************************************)
(* The accessors of a compiled plan.                                       *)
(***************************************************************************)
\* Sensitivity variant of CommandsAsBytes32: the first word of each command.
RECURSIVE CommandsAsBytes32FirstWords(_)
CommandsAsBytes32FirstWords(cmds) ==
    IF cmds = <<>> THEN <<>>
    ELSE (IF Len(Head(cmds)) >= 32 THEN <<SubSeq(Head(cmds), 1, 32)>> ELSE <<>>)
         \o CommandsAsBytes32FirstWords(Tail(cmds))

\* CompiledPlan.CommandsAsBytes32 on the Commands of a plan
RECURSIVE CommandsAsBytes32(_)
CommandsAsBytes32(cmds) ==
    IF cmds = <<>> THEN <<>>
    ELSE (IF Len(Head(cmds)) >= 32 THEN <<SubSeq(Head(cmds), 1, 32)>> ELSE <<>>)
         \o (IF Len(Head(cmds)) >= 64 THEN <<SubSeq(Head(cmds), 33, 64)>> ELSE <<>>)
         \o CommandsAsBytes32(Tail(cmds))

\* CompiledPlan.CommandCount on the Commands of a plan
CommandCount(cmds) ==
    Cardinality({k \in DOMAIN cmds : Len(cmds[k]) = 32 \/ Len(cmds[k]) = 64})

\* Planner.Len and Planner.CommandAt (NilValue for nil)
PlannerLen(p) == Len(commands[p])
CommandAt(p, i) ==
    IF i < 0 \/ i >= Len(commands[p]) THEN NilValue ELSE commands[p][i + 1]

(***************************************************************************)
(* Nested planners.                                                        *)
(***************************************************************************)
RECURSIVE checkCycleFrom(_, _, _)
checkCycleFrom(current, sub, visited) ==
    IF current = NoPlanner THEN NoErr
    ELSE IF current \in visited THEN ErrCyclicPlanner
    ELSE IF current = sub THEN ErrCyclicPlanner
    ELSE checkCycleFrom(parent[current], sub, visited \cup {current})

\* Sensitivity variant of checkCycle: only the planner itself is looked at.
checkCycleSelf(p, sub) == IF p = sub THEN ErrCyclicPlanner ELSE NoErr

checkCycle(p, sub) == checkCycleFrom(p, sub, {})

\* Sensitivity variant of validateSubplan: the inputs of the method are not
\* looked at.
validateSubplanNilOnly(call, sub) ==
    IF sub = NoPlanner THEN ErrInvalidSubplan ELSE NoErr

validateSubplan(call, sub) ==
    IF sub = NoPlanner THEN ErrInvalidSubplan
    ELSE IF ~\E k \in DOMAIN call.method.Inputs : call.method.Inputs[k] = "bytes32[]"
    THEN ErrInvalidSubplan
    ELSE NoErr

(***************************************************************************)
(* The operations of a planner.                                            *)
(***************************************************************************)
Init ==
    /\ commands = [p \in Planners |-> <<>>]
    /\ parent = [p \in Planners |-> NoPlanner]
    /\ last = [op |-> "New"]

Add(p, call) ==
    /\ commands' = [commands EXCEPT ![p] = Append(@, NewCommand(call, "Call", NoPlanner))]
    /\ last' = [op |-> "Add", planner |-> p, err |-> NoErr,
                rv |-> Handle(p, Len(commands[p]), call)]
    /\ UNCHANGED parent

AddSubplan(p, call, sub) ==
    LET err1 == validateSubplan(call, sub)
        err2 == checkCycle(p, sub)
        err == IF IsErr(err1) THEN err1 ELSE err2
    IN  IF IsErr(err)
        THEN /\ last' = [op |-> "AddSubplan", planner |-> p, sub |-> sub,
                         err |-> err, rv |-> NilValue]
             /\ UNCHANGED <<commands, parent>>
        ELSE /\ parent' = [parent EXCEPT ![sub] = p]
             /\ commands' = [commands EXCEPT
                               ![p] = Append(@, NewCommand(call, "Subplan", sub))]
             /\ last' = [op |-> "AddSubplan", planner |-> p, sub |-> sub,
                         err |-> NoErr, rv |-> Handle(p, Len(commands[p]), call)]

ReplaceState(p, call) ==
    LET err == IF ~HasReturnValue(call) THEN ErrNoReturnValue
               ELSE IF ReturnType(call) # "bytes[]"
               THEN TypeMismatchError("bytes[]", ReturnType(call))
               ELSE NoErr
    IN  /\ last' = [op |-> "ReplaceState", planner |-> p, err |-> err]
        /\ commands' = IF IsErr(err) THEN commands
                       ELSE [commands EXCEPT
                               ![p] = Append(@, NewCommand(call, "RawCall", NoPlanner))]
        /\ UNCHANGED parent

Plan(p, opts) ==
    \E cfg \in {ApplyOptions(defaultPlanConfig, opts)} :
        \E r \in {PlanResult(p, commands[p], cfg)} :
            /\ commands' = [commands EXCEPT ![p] = r.cmds]
            /\ last' = [op |-> "Plan", planner |-> p, cfg |-> cfg,
                        plan |-> r.plan, err |-> r.err, obs |-> r.obs]
            /\ UNCHANGED parent

(***************************************************************************)
(* The calls staged by the specifications: two contracts, a few literals   *)
(* and the output handles of the commands already staged.                  *)
(***************************************************************************)
LibA == NewLibrary(Addr(17))
ExtB == NewContract(Addr(34))

Hi == <<104, 105>>

\* the output handles minted by the commands of planner q at indices from..
HandlesFrom(q, from) ==
    {Handle(q, i, commands[q][i + 1].call) :
        i \in Max({0, from})..(Len(commands[q]) - 1)} \ {NilValue}

\* the handles of the last Reach commands of planner q with the given type
Recent(q, abiType) ==
    {h \in HandlesFrom(q, Len(commands[q]) - Reach) : h.abiType = abiType}

Lit3 == Uint256(3)
Lit5 == Uint256(5)
Lit10 == Uint256(10)
Lit20 == Uint256(20)
LitHi == String(Hi)

CallMenu ==
    {MustInvoke(LibA, Methods.add, <<x, Lit3>>) : x \in {Lit5} \cup Recent(1, "uint256")}
    \cup {MustInvoke(LibA, Methods.multiply, <<x, Lit10>>) : x \in Recent(1, "uint256")}
    \cup {MustInvoke(LibA, Methods.subtract, <<x, Lit20>>) : x \in Recent(1, "uint256")}
    \cup {MustInvoke(LibA, Methods.noReturn, <<x>>) : x \in Recent(1, "uint256")}
    \cup {MustInvoke(LibA, Methods.getString, <<>>)}
    \cup {MustInvoke(LibA, Methods.setName, <<x>>) : x \in {LitHi} \cup Recent(1, "string")}
    \cup {WithValue(MustInvoke(ExtB, Methods.noReturn, <<Lit5>>), v) : v \in {0, 3}}

Opt(name, arg) == [name |-> name, arg |-> arg]

PlanOptionLists ==
    {<<>>,
     <<Opt("WithMaxStateSlots", 500), Opt("WithSlotOptimization", FALSE)>>,
     <<Opt("WithMaxStateSlots", SmallCeiling)>>,
     <<Opt("WithMaxCommands", FewCommands)>>}

(***************************************************************************)
(* Spec: one planner, staged with calls of the menu and compiled under the *)
(* option lists at any point.                                              *)
(***************************************************************************)
Next ==
    \/ \E call \in CallMenu : Len(commands[1]) < MaxCmds /\ Add(1, call)
    \/ \E opts \in PlanOptionLists : Plan(1, opts)

Spec == Init /\ [][Next]_vars

(***************************************************************************)
(* SpecNest: NumPlanners planners stage plain calls, nested programs of    *)
(* one another and state replacements, MaxNestCmds commands in all, and    *)
(* are compiled with the default options.                                  *)
(***************************************************************************)
RECURSIVE Staged(_)
Staged(S) ==
    IF S = {} THEN 0
    ELSE LET q == CHOOSE x \in S : TRUE
         IN  Len(commands[q]) + Staged(S \ {q})

ExecuteCall(p, sub) ==
    MustInvoke(ExtB, Methods.execute, <<SubplanValue(sub), StateValue(p)>>)

UpdateStateCall == MustInvoke(LibA, Methods.updateState, <<>>)

\* calls handed to AddSubplan: one taking the nested commands, one that does not
SubplanCalls(p, sub) ==
    {ExecuteCall(p, sub), MustInvoke(LibA, Methods.add, <<Lit5, Lit3>>)}

\* calls handed to ReplaceState: returning bytes[], a string, nothing, and
\* two outputs of which the first or the second is bytes[]
ReplaceCalls ==
    {UpdateStateCall,
     MustInvoke(LibA, Methods.getString, <<>>),
     MustInvoke(LibA, Methods.noReturn, <<Lit5>>),
     MustInvoke(LibA, Methods.snapshot, <<>>),
     MustInvoke(LibA, Methods.count, <<>>)}

\* plain calls, which may take an output of any planner
NestMenu ==
    {MustInvoke(LibA, Methods.add, <<Lit5, Lit3>>),
     MustInvoke(LibA, Methods.sum32, [k \in 1..MaxExtendedArgs |-> Lit5])}
    \cup {MustInvoke(LibA, Methods.noReturn, <<x>>) :
            x \in {h \in UNION {HandlesFrom(q, 0) : q \in Planners} :
                      h.abiType = "uint256"}}

NextNest ==
    \/ \E p \in Planners, sub \in Planners \cup {NoPlanner} :
          \E call \in SubplanCalls(p, sub) :
              Staged(Planners) < MaxNestCmds /\ AddSubplan(p, call, sub)
    \/ \E p \in Planners, call \in NestMenu :
          Staged(Planners) < MaxNestCmds /\ Add(p, call)
    \/ \E p \in Planners, call \in ReplaceCalls :
          Staged(Planners) < MaxNestCmds /\ ReplaceState(p, call)
    \/ \E p \in Planners : Plan(p, <<>>)

SpecNest == Init /\ [][NextNest]_vars

(***************************************************************************)
(* SpecBig: a planner filled to the slot ceiling.  FullWide commands of    *)
(* MaxExtendedArgs fresh literals each, one more whose first n literals    *)
(* are fresh (the others repeat those of the first command), then up to    *)
(* MaxTail small commands; compiled once a wide command is staged.         *)
(***************************************************************************)
FullWide == MaxStateSlots \div MaxExtendedArgs

\* the arguments of wide command j, n of them fresh
WideArgs(j, n) ==
    [k \in 1..MaxExtendedArgs |->
        IF k <= n THEN Uint256(LiteralStride * j + k) ELSE Uint256(k)]

WideCall(j, n) == MustInvoke(LibA, Methods.sum32, WideArgs(j, n))

TailMenu ==
    {MustInvoke(LibA, Methods.getString, <<>>)}
    \cup {MustInvoke(LibA, Methods.setName, <<x>>) : x \in {LitHi} \cup Recent(1, "string")}
    \cup {MustInvoke(LibA, Methods.add, <<Lit5, Uint256(LiteralStride * MaxExtendedArgs)>>)}
    \cup {MustInvoke(LibA, Methods.noReturn, <<x>>) : x \in Recent(1, "uint256")}

BigOptionLists ==
    {<<>>,
     <<Opt("WithMaxStateSlots", 500), Opt("WithSlotOptimization", FALSE)>>,
     <<Opt("WithMaxStateSlots", LowerCeiling)>>}

NextBig ==
    \/ /\ Len(commands[1]) < FullWide
       /\ Add(1, WideCall(Len(commands[1]), MaxExtendedArgs))
    \/ \E n \in WideFill..MaxExtendedArgs :
          Len(commands[1]) = FullWide /\ Add(1, WideCall(FullWide, n))
    \/ \E call \in TailMenu :
          /\ Len(commands[1]) > FullWide
          /\ Len(commands[1]) <= FullWide + MaxTail
          /\ Add(1, call)
    \/ \E opts \in BigOptionLists :
          Len(commands[1]) > 0 /\ Plan(1, opts)

SpecBig == Init /\ [][NextBig]_vars

(***************************************************************************)
(* SpecEnc: the encoder on its own.  A word is encoded by Encode,          *)
(* EncodeExtended or EncodeCommand from a selector, a flag byte, up to     *)
(* MaxEncArgs slot bytes, a return byte and an address; a word so made (or *)
(* its first CommandSize - 1 bytes) is decoded, and the decoded fields are *)
(* encoded again.  The encoder keeps nothing between calls: a behaviour    *)
(* follows one word.                                                       *)
(***************************************************************************)
SelectorMenu == {Methods.add.ID, Methods.noReturn.ID}

FlagMenu ==
    {FlagDelegateCall, FlagCall, FlagStaticCall, FlagCallWithValue,
     OrBit(FlagCall, FlagTupleReturn)}

SlotPatterns == {"static", "dynamic", "state", "unused"}

\* slot byte k of a list: slot k - 1, with the dynamic bit, or with the
\* state marker first, or with an UnusedSlot byte second
SlotByteOf(pattern, k) ==
    CASE pattern = "dynamic" -> OrBit(k - 1, DynamicSlotFlag)
      [] pattern = "state" /\ k = 1 -> StateSlotMarker
      [] pattern = "unused" /\ k = 2 -> UnusedSlot
      [] OTHER -> k - 1

SlotList(pattern, n) == [k \in 1..n |-> SlotByteOf(pattern, k)]

ReturnMenu == {NoReturnSlot, 3, OrBit(3, DynamicSlotFlag)}

AddressMenu == {Addr(17), Addr(34)}

Encoded(op, selector, flags, argSlots, returnSlot, address, r) ==
    [op |-> op, selector |-> selector, flags |-> flags, argSlots |-> argSlots,
     returnSlot |-> returnSlot, address |-> address,
     bytes |-> r.bytes, err |-> r.err]

DoEncode(selector, flags, argSlots, returnSlot, address) ==
    /\ last.op = "New"
    /\ last' = Encoded("Encode", selector, flags, argSlots, returnSlot, address,
                   [bytes |-> Encode(selector, flags, argSlots, returnSlot, address),
                    err |-> NoErr])
    /\ UNCHANGED <<commands, parent>>

DoEncodeExtended(selector, flags, argSlots, returnSlot, address) ==
    /\ last.op = "New"
    /\ last' = Encoded("EncodeExtended", selector, flags, argSlots, returnSlot, address,
                   [bytes |-> EncodeExtended(selector, flags, argSlots, returnSlot, address),
                    err |-> NoErr])
    /\ UNCHANGED <<commands, parent>>

DoEncodeCommand(selector, flags, argSlots, returnSlot, address) ==
    /\ last.op = "New"
    /\ last' = Encoded("EncodeCommand", selector, flags, argSlots, returnSlot, address,
                   EncodeCommand(selector, flags, argSlots, returnSlot, address))
    /\ UNCHANGED <<commands, parent>>

\* DecodeCommand on the word just encoded, or on that word cut short
DoDecodeCommand(cut) ==
    /\ last.op \in {"Encode", "EncodeExtended", "EncodeCommand"}
    /\ ~IsErr(last.err)
    /\ \E cmd \in {IF cut THEN SubSeq(last.bytes, 1, CommandSize - 1)
                    ELSE last.bytes} :
           last' = [op |-> "DecodeCommand", cmd |-> cmd, made |-> last.op,
                    given |-> last.argSlots]
                   @@ DecodeCommand(cmd)
    /\ UNCHANGED <<commands, parent>>

\* EncodeCommand on the fields DecodeCommand returned
DoReencode ==
    /\ last.op = "DecodeCommand"
    /\ ~IsErr(last.err)
    /\ last' = Encoded("Reencode", last.selector, last.flags, last.argSlots,
                        last.returnSlot, last.address,
                        EncodeCommand(last.selector, last.flags, last.argSlots,
                                      last.returnSlot, last.address))
                @@ [cmd |-> last.cmd, made |-> last.made, given |-> last.given]
    /\ UNCHANGED <<commands, parent>>

NextEnc ==
    \/ /\ last.op = "New"
       /\ \E selector \in SelectorMenu, flags \in FlagMenu, pattern \in SlotPatterns,
             n \in 0..MaxEncArgs, returnSlot \in ReturnMenu, address \in AddressMenu :
             \/ DoEncode(selector, flags, SlotList(pattern, n), returnSlot, address)
             \/ DoEncodeExtended(selector, flags, SlotList(pattern, n), returnSlot, address)
             \/ DoEncodeCommand(selector, flags, SlotList(pattern, n), returnSlot, address)
    \/ \E cut \in BOOLEAN : DoDecodeCommand(cut)
    \/ DoReencode

SpecEnc == Init /\ [][NextEnc]_vars

(***************************************************************************)
(* SpecCalls: a planner whose first command is a call on a library, an     *)
(* external or a static contract that went through up to MaxMods of the    *)
(* modifiers WithValue, Static and RawReturn; the commands after it, up to *)
(* MaxCallCmds in all, take its output.  Compiled with the default         *)
(* options at any point.                                                   *)
(***************************************************************************)
StatC == WithStaticCalls(NewContract(Addr(51)))

ModMenu ==
    {[mod |-> "WithValue", amount |-> 0], [mod |-> "WithValue", amount |-> 3],
     [mod |-> "Static", amount |-> NoValue], [mod |-> "RawReturn", amount |-> NoValue]}

Modify(call, m) ==
    CASE m.mod = "WithValue" -> WithValue(call, m.amount)
      [] m.mod = "Static" -> Static(call)
      [] OTHER -> RawReturn(call)

RECURSIVE Modified(_, _)
Modified(call, mods) ==
    IF mods = <<>> THEN call
    ELSE Modified(Modify(call, Head(mods)), Tail(mods))

ModLists == UNION {[1..n -> ModMenu] : n \in 0..MaxMods}

Fives(n) == [k \in 1..n |-> Lit5]

BaseCalls ==
    UNION {{MustInvoke(c, Methods.noReturn, Fives(1)),
            MustInvoke(c, Methods.add, Fives(2)),
            MustInvoke(c, Methods.sum6, Fives(6)),
            MustInvoke(c, Methods.sum32, Fives(32))} : c \in {LibA, ExtB, StatC}}

NextCalls ==
    \/ \E call \in BaseCalls, mods \in ModLists :
          commands[1] = <<>> /\ Add(1, Modified(call, mods))
    \/ \E x \in HandlesFrom(1, 0) :
          /\ Len(commands[1]) < MaxCallCmds
          /\ Add(1, MustInvoke(LibA, Methods.noReturn, <<x>>))
    \/ Plan(1, <<>>)

SpecCalls == Init /\ [][NextCalls]_vars

(***************************************************************************)
(* SpecMod: the modifiers of a call.  Calls are objects of a heap, named   *)
(* by their index in it; Invoke makes the first one and each modifier is   *)
(* applied to any call of the heap, up to MaxHeap calls.  trails[o] lists  *)
(* the modifiers that produced call o from the first one.                  *)
(***************************************************************************)
\* Sensitivity variant of clone: the receiver itself is handed back.
cloneShared(heap, r) == [heap |-> heap, ref |-> r]

\* Call.clone on the call at r: a copy in a new object
clone(heap, r) == [heap |-> Append(heap, heap[r]), ref |-> Len(heap) + 1]

\* a modifier on the call at r: the clone is made, then assigned to
WithValueOn(heap, r, amount) ==
    LET set(c) == [heap |-> [c.heap EXCEPT ![c.ref] = WithValue(@, amount)],
                   ref |-> c.ref]
    IN  set(clone(heap, r))

StaticOn(heap, r) ==
    LET set(c) == [heap |-> [c.heap EXCEPT ![c.ref] = Static(@)], ref |-> c.ref]
    IN  set(clone(heap, r))

RawReturnOn(heap, r) ==
    LET set(c) == [heap |-> [c.heap EXCEPT ![c.ref] = RawReturn(@)], ref |-> c.ref]
    IN  set(clone(heap, r))

DoInvoke(contract, method, rawArgs) ==
    /\ last.op = "New"
    /\ last' = [op |-> "Invoke", heap |-> <<MustInvoke(contract, method, rawArgs)>>,
                trails |-> << <<>> >>]
    /\ UNCHANGED <<commands, parent>>

\* the outcome of modifier m on the call at r, res being what it returned
Modifying(r, m, res) ==
    /\ last.op \in {"Invoke", "Modify"}
    /\ Len(last.trails) < MaxHeap
    /\ last' = [op |-> "Modify", heap |-> res.heap,
                trails |-> Append(last.trails, Append(last.trails[r], m)),
                recv |-> r, before |-> last.heap[r], out |-> res.ref]
    /\ UNCHANGED <<commands, parent>>

DoWithValue(r, amount) ==
    Modifying(r, [mod |-> "WithValue", amount |-> amount],
              WithValueOn(last.heap, r, amount))

DoStatic(r) ==
    Modifying(r, [mod |-> "Static", amount |-> NoValue], StaticOn(last.heap, r))

DoRawReturn(r) ==
    Modifying(r, [mod |-> "RawReturn", amount |-> NoValue], RawReturnOn(last.heap, r))

Heap == IF last.op \in {"Invoke", "Modify"} THEN DOMAIN last.heap ELSE {}

NextMod ==
    \/ \E c \in {LibA, ExtB, StatC} :
          \/ DoInvoke(c, Methods.noReturn, <<Lit5>>)
          \/ DoInvoke(c, Methods.add, <<Lit5, Lit3>>)
    \/ \E r \in Heap, amount \in {0, 3} : DoWithValue(r, amount)
    \/ \E r \in Heap : DoStatic(r)
    \/ \E r \in Heap : DoRawReturn(r)

SpecMod == Init /\ [][NextMod]_vars

(***************************************************************************)
(* SpecVis: compiles that fail.  Planner 2 stages one call; planner 1      *)
(* stages up to MaxVisCmds calls that take literals, its own outputs, the  *)
(* output of planner 2's command, or more arguments than a command holds,  *)
(* and is compiled with the default options, a low slot ceiling, or slot   *)
(* optimization off.                                                       *)
(***************************************************************************)
\* the outputs of type uint256 of the commands of planners 1 and 2
VisHandles ==
    {h \in HandlesFrom(1, 0) \cup HandlesFrom(2, 0) : h.abiType = "uint256"}

VisMenu ==
    {MustInvoke(LibA, Methods.add, <<Lit5, Lit3>>),
     WithValue(MustInvoke(ExtB, Methods.sum32, [k \in 1..MaxExtendedArgs |-> Lit5]), 3)}
    \cup {MustInvoke(LibA, Methods.noReturn, <<x>>) : x \in VisHandles}
    \cup {MustInvoke(LibA, Methods.multiply, <<Lit10, x>>) : x \in VisHandles}

VisOptionLists ==
    {<<>>,
     <<Opt("WithMaxStateSlots", SmallCeiling)>>,
     <<Opt("WithSlotOptimization", FALSE)>>}

NextVis ==
    \/ commands[2] = <<>> /\ Add(2, MustInvoke(LibA, Methods.add, <<Lit5, Lit3>>))
    \/ \E call \in VisMenu : Len(commands[1]) < MaxVisCmds /\ Add(1, call)
    \/ \E opts \in VisOptionLists : Plan(1, opts)

SpecVis == Init /\ [][NextVis]_vars

(***************************************************************************)
(* Properties.  After a Plan, last holds its outcome and commands holds    *)
(* the commands it compiled.                                               *)
(***************************************************************************)
Planned == last.op = "Plan"
Compiled == Planned /\ ~IsErr(last.err)

\* the commands of the planner compiled last, and command i's record of last.obs
Cmds == commands[last.planner]
Log(i) == last.obs.log[i + 1]
Idx == 0..(Len(Cmds) - 1)

\* the commands as staged, before any Plan stored a return slot on them
Fresh(cmds) == [k \in DOMAIN cmds |-> [cmds[k] EXCEPT !.returnSlot = -1]]

SameOutcome(r) == r.plan = last.plan /\ r.err = last.err

\* the id of command i, its argument values and the literal of its ETH value
Id(i) == <<last.planner, i>>
Args(i) == Cmds[i + 1].call.args
HasValueLiteral(i) == Cmds[i + 1].call.value # NoValue /\ Cmds[i + 1].call.value > 0

\* the values command i resolves to slots, in the order of its slot list
Resolved(i) ==
    IF HasValueLiteral(i) THEN Append(Args(i), Uint256(Cmds[i + 1].call.value))
    ELSE Args(i)

\* the slot bytes of command i, read from its encoded word(s)
WordOf(i) == last.plan.Commands[i + 1]
ArgByte(i, k) ==
    IF k <= MaxStandardArgs THEN WordOf(i)[5 + k]
    ELSE WordOf(i)[CommandSize + (k - MaxStandardArgs)]
ReturnByte(i) == WordOf(i)[6 + MaxStandardArgs]

Sentinel(b) == b \in {StateSlotMarker, UnusedSlot}
SlotOf(b) == ClearBit(b, DynamicSlotFlag)
DynamicBit(b) == HasBit(b, DynamicSlotFlag)

\* command i's output is an argument of some command of the planner
Consumed(i) ==
    \E j \in Idx : \E k \in DOMAIN Args(j) :
        Args(j)[k].kind = "ret" /\ Args(j)[k].command = Id(i)

\* C1: whatever Plan calls came before, the outcome of a Plan is the outcome
\* of compiling the staged calls under its options (so two Plans with the
\* same options and no staging in between agree: same error, or the same
\* command words and state slots), and calling Plan again at once with the
\* same options returns it again.
C1_PlanDeterministic ==
    Planned =>
        /\ SameOutcome(PlanResult(last.planner, Fresh(Cmds), last.cfg))
        /\ SameOutcome(PlanResult(last.planner, Cmds, last.cfg))

\* a successful compile of a full planner in which a return slot is a recycled one
C1_Witness ==
    /\ Compiled
    /\ Len(Cmds) = MaxCmds
    /\ \E i \in Idx :
          /\ Cmds[i + 1].returnSlot >= 0
          /\ \E k \in DOMAIN Log(i).freeBefore :
                Log(i).freeBefore[k] = Cmds[i + 1].returnSlot

\* C2: in a compiled program no slot byte that allocation produced (for a
\* literal argument, an output argument or a return slot) is 0xFE or 0xFF and
\* its slot index lies in 0..127; an argument byte is 0xFE only for a
\* whole-state or nested-program argument, a return byte is 0xFF only for
\* "no return".
C2_NoSentinelAllocated ==
    Compiled =>
        \A i \in Idx :
            /\ \A k \in DOMAIN Resolved(i) :
                  IF Resolved(i)[k].kind \in {"lit", "ret"}
                  THEN /\ ~Sentinel(ArgByte(i, k))
                       /\ SlotOf(ArgByte(i, k)) \in 0..127
                  ELSE ArgByte(i, k) = StateSlotMarker
            /\ IF Consumed(i)
               THEN ~Sentinel(ReturnByte(i)) /\ SlotOf(ReturnByte(i)) \in 0..127
               ELSE ReturnByte(i) = NoReturnSlot

\* C4: in a compiled program every argument slot byte that is not a
\* sentinel names a slot of the state array: (s & 0x7F) < len(state).
C4_ArgSlotsInState ==
    Compiled =>
        \A i \in Idx : \A k \in DOMAIN Resolved(i) :
            ~Sentinel(ArgByte(i, k)) =>
                SlotOf(ArgByte(i, k)) < Len(last.plan.State)

\* a compiled program with a dynamic argument in the last slot of the state
C4_Witness ==
    /\ Compiled
    /\ \E i \in Idx : \E k \in DOMAIN Resolved(i) :
          /\ ~Sentinel(ArgByte(i, k))
          /\ DynamicBit(ArgByte(i, k))
          /\ SlotOf(ArgByte(i, k)) = Len(last.plan.State) - 1

\* the literal occurrences <<i, k>> among the arguments command i resolves
Literals(I) ==
    {ik \in UNION {{<<i, k>> : k \in DOMAIN Resolved(i)} : i \in I} :
        Resolved(ik[1])[ik[2]].kind = "lit"}
LitAt(ik) == Resolved(ik[1])[ik[2]]
Payloads(I) == {LitAt(ik).data : ik \in Literals(I)}

\* the commands the compile got through
Done == 0..(Len(last.obs.log) - 1)

\* C5: within one compile, with slot optimization on or off, two literal
\* arguments (the appended ETH-value literal included) with the same payload
\* bytes and the same dynamism get the same slot byte, and only the first
\* occurrence of a payload allocates: the allocations of a compile are one
\* per consumed output and one per distinct payload.
C5_LiteralsDeduplicated ==
    Planned =>
        /\ \A a \in Literals(Done) : \A b \in Literals(Done) :
              (/\ LitAt(a).data = LitAt(b).data
               /\ isDynamicType(LitAt(a).abiType) = isDynamicType(LitAt(b).abiType))
              => Log(a[1]).argSlots[a[2]] = Log(b[1]).argSlots[b[2]]
        /\ Compiled =>
              last.obs.allocs = Cardinality(DOMAIN last.obs.returnSlotMap)
                                  + Cardinality(Payloads(Idx))

\* a compile without slot optimization in which an ETH-value literal repeats
\* the payload of an argument of another command
C5_Witness ==
    /\ Compiled
    /\ ~last.cfg.optimizeSlots
    /\ \E a \in Literals(Idx) : \E b \in Literals(Idx) :
          /\ a[1] # b[1]
          /\ a[2] > Len(Args(a[1]))
          /\ LitAt(a).data = LitAt(b).data

\* C6: in a compiled program, the return byte of a command whose output is
\* an argument of some command holds in its low 7 bits the slot allocated
\* for the output, a slot of the state array, and has its high bit set iff
\* the method's first output type is dynamic; the return byte of any other
\* command is 0xFF and no slot is allocated for it.
C6_ReturnByte ==
    Compiled =>
        \A i \in Idx :
            IF Consumed(i)
            THEN /\ Id(i) \in DOMAIN last.obs.returnSlotMap
                 /\ SlotOf(ReturnByte(i)) = last.obs.returnSlotMap[Id(i)]
                 /\ SlotOf(ReturnByte(i)) < Len(last.plan.State)
                 /\ DynamicBit(ReturnByte(i))
                       = isDynamicType(ReturnType(Cmds[i + 1].call))
            ELSE /\ ReturnByte(i) = NoReturnSlot
                 /\ Id(i) \notin DOMAIN last.obs.returnSlotMap

\* a compiled program with a consumed dynamic output and an unconsumed output
C6_Witness ==
    /\ Compiled
    /\ \E i \in Idx : Consumed(i) /\ DynamicBit(ReturnByte(i))
    /\ \E i \in Idx : ~Consumed(i) /\ HasReturnValue(Cmds[i + 1].call)

\* the last command taking the output of command j, and the slots in use
\* while command i is compiled: the payloads of the literals met so far and
\* the outputs produced so far that a command from i on still takes
LastUse(j) == Max(usersOf(Cmds, Id(j)))
InUse(i) ==
    Cardinality(Payloads(0..i))
        + Cardinality({j \in 0..i : Consumed(j) /\ LastUse(j) >= i})
Peak == IF Idx = {} THEN 0 ELSE Max({InUse(i) : i \in Idx})

\* C7: the state array of a compiled program has, with slot optimization,
\* as many slots as are in use at once at the most (a literal from its first
\* use on, an output from its command to the last command taking it), and
\* without it one slot per consumed output and per distinct literal payload.
C7_StateLength ==
    Compiled =>
        Len(last.plan.State) =
            IF last.cfg.optimizeSlots THEN Peak
            ELSE Cardinality({j \in Idx : Consumed(j)}) + Cardinality(Payloads(Idx))

\* a compile with slot optimization that allocated more often than it has slots
C7_Witness ==
    /\ Compiled
    /\ last.cfg.optimizeSlots
    /\ Len(last.plan.State) < last.obs.allocs

\* the chain o1 = add(5, 3); o2 = multiply(o1, 10); subtract(o2, 20)
ChainCalls ==
    <<MustInvoke(LibA, Methods.add, <<Lit5, Lit3>>),
      MustInvoke(LibA, Methods.multiply, <<ReturnValue(<<1, 0>>, "uint256"), Lit10>>),
      MustInvoke(LibA, Methods.subtract, <<ReturnValue(<<1, 1>>, "uint256"), Lit20>>)>>

ChainCompiled ==
    /\ Compiled
    /\ last.planner = 1
    /\ last.cfg.optimizeSlots
    /\ Len(Cmds) = Len(ChainCalls)
    /\ \A k \in DOMAIN Cmds : Cmds[k].call = ChainCalls[k]

\* C8 as stated: the chain compiles, with slot optimization, to 3 commands
\* and a state array of length 4, o2's return slot being the slot used
\* before for o1's output.
C8_ChainAsStated ==
    ChainCompiled =>
        /\ Len(last.plan.Commands) = 3
        /\ Len(last.plan.State) = 4
        /\ SlotOf(ReturnByte(1)) = SlotOf(ReturnByte(0))

\* C8 amended: the chain compiles, with slot optimization, to 3 commands
\* and a state array of length 5; o1's slot is still in use while the second
\* command is compiled, and o2's return slot is a slot created for it.
C8_Chain ==
    /\ ChainCompiled =>
          /\ Len(last.plan.Commands) = 3
          /\ Len(last.plan.State) = 5
          /\ SlotOf(ReturnByte(1)) # SlotOf(ReturnByte(0))
          /\ SlotOf(ReturnByte(1)) = Log(0).nextSlot
          /\ Log(1).freeBefore = <<>>
    /\ (/\ Planned
        /\ last.cfg = defaultPlanConfig
        /\ Len(Cmds) = Len(ChainCalls)
        /\ \A k \in DOMAIN Cmds : Cmds[k].call = ChainCalls[k])
       => Compiled

C8_Witness == ChainCompiled

SlotExhausted(e) == e.kind = "PlanError" /\ e.Err = ErrSlotExhausted

\* the slots the compile would create were there no ceiling
Needed ==
    PlanResult(last.planner, Fresh(Cmds),
               [last.cfg EXCEPT !.maxStateSlots = MaxUint8]).obs.nextSlot

\* C9: the ceiling C of a compile is at most 127; the compile never creates
\* more than C slots; it fails with ErrSlotExhausted exactly when it needs
\* more than C slots, and then C slots exist and none is free to recycle.
C9_SlotCeiling ==
    Planned =>
        /\ last.cfg.maxStateSlots <= MaxStateSlots
        /\ last.obs.nextSlot <= last.cfg.maxStateSlots
        /\ Compiled => Len(last.plan.State) <= last.cfg.maxStateSlots
        /\ SlotExhausted(last.err) <=> Needed > last.cfg.maxStateSlots
        /\ SlotExhausted(last.err) =>
              /\ last.obs.nextSlot = last.cfg.maxStateSlots
              /\ last.obs.freeSlots = <<>>
              /\ last.plan.isNil

\* a compile under the default ceiling that creates exactly 127 slots
C9_Witness ==
    /\ Compiled
    /\ last.cfg.maxStateSlots = MaxStateSlots
    /\ Len(last.plan.State) = MaxStateSlots

\* C10: Plan on more commands than maxCommands fails with an error of the
\* kind TooManyCommands, which is not the too-many-arguments error, and
\* returns no program; on at most maxCommands commands it does not fail so.
C10_TooManyCommands ==
    Planned =>
        IF Len(Cmds) > last.cfg.maxCommands
        THEN /\ last.err.kind = "ErrTooManyCommands"
             /\ last.err # ErrTooManyArguments
             /\ last.plan.isNil
        ELSE last.err.kind # "ErrTooManyCommands"

\* planner x holds a nested-program command for planner y
Embeds(x, y) ==
    \E k \in DOMAIN commands[x] :
        commands[x][k].cmdType = "Subplan" /\ commands[x][k].sub = y

RECURSIVE EmbedsWithin(_, _, _)
EmbedsWithin(x, y, n) ==
    /\ n > 0
    /\ \/ Embeds(x, y)
       \/ \E z \in Planners : Embeds(x, z) /\ EmbedsWithin(z, y, n - 1)

TransitivelyEmbeds(x, y) == EmbedsWithin(x, y, NumPlanners)

\* C3: whatever AddSubplan calls were made among the planners, no planner
\* transitively embeds itself as a nested program.
C3_NestingAcyclic == \A x \in Planners : ~TransitivelyEmbeds(x, x)

(***************************************************************************)
(* The encoder's claims, under SpecEnc.                                    *)
(***************************************************************************)
\* the argument positions of a word pair: MaxStandardArgs in the first word
\* and one per byte of the second
WordCapacity == MaxStandardArgs + (ExtendedCommandSize - CommandSize)

\* C11: EncodeCommand succeeds whenever it is handed at most 38 slot bytes
\* (6 of the first word plus 32 of the second), and fails, with
\* TooManyArguments, exactly when it is handed more.
C11_ArgumentLimit ==
    last.op = "EncodeCommand" =>
        /\ Len(last.argSlots) <= WordCapacity => ~IsErr(last.err)
        /\ Len(last.argSlots) > WordCapacity => last.err = ErrTooManyArguments

(***************************************************************************)
(* The claims on call kinds and ETH values, under SpecCalls.               *)
(***************************************************************************)
FlagByte(i) == WordOf(i)[5]
Formals(i) == Len(Cmds[i + 1].call.method.Inputs)

\* the slot bytes of command i read from its word(s), padding dropped
SlotBytes(i) == DecodeCommand(WordOf(i)).argSlots

\* C12: in every compiled program, a command whose flag byte has call kind
\* CallWithValue (11) has exactly one slot byte more than its method has
\* inputs, the last one, naming a state slot that holds the 32-byte encoding
\* of the amount handed to WithValue, zero included.
C12_ValueSlot ==
    Compiled =>
        \A i \in Idx :
            CallType(FlagByte(i)) = FlagCallWithValue =>
                /\ Len(SlotBytes(i)) = Formals(i) + 1
                /\ last.plan.State[SlotOf(SlotBytes(i)[Formals(i) + 1]) + 1]
                       = Word(Cmds[i + 1].call.value)

\* C13: no compiled program holds a command that carries a nonzero ETH
\* value while the call kind of its flag byte is DelegateCall (00) or
\* StaticCall (10): whatever the order of WithValue and Static on a call of
\* a library, an external or a static contract, such a call does not get
\* through Add and Plan.
C13_NoValueOnDelegateOrStatic ==
    Compiled =>
        \A i \in Idx :
            HasValueLiteral(i) =>
                CallType(FlagByte(i)) \notin {FlagDelegateCall, FlagStaticCall}

\* the slot list Plan handed to the encoder for command i
FinalSlots(i) == Log(i).argSlots

\* C18: every compiled command is one 32-byte word when its final slot list
\* (formal arguments plus the ETH-value slot, if appended) has at most 6
\* entries and a 64-byte word pair otherwise; bit 0x40 of its flag byte is
\* set iff it is 64 bytes long, bit 0x80 iff RawReturn was applied to the
\* call, bits 0..1 are the call kind of the call and bits 2..5 are zero.
C18_WordSizeAndFlags ==
    Compiled =>
        \A i \in Idx :
            /\ Len(WordOf(i)) = IF Len(FinalSlots(i)) <= 6 THEN 32 ELSE 64
            /\ HasBit(FlagByte(i), 64) <=> Len(WordOf(i)) = 64
            /\ HasBit(FlagByte(i), 128) <=> Cmds[i + 1].call.rawReturn
            /\ FlagByte(i) % 4 = CallType(Cmds[i + 1].call.flags)
            /\ (FlagByte(i) \div 4) % 16 = 0

\* a compiled program with a 64-byte command of 7 slots (6 formal ones and
\* the ETH value) on which RawReturn was applied, followed by a 32-byte one
C18_Witness ==
    /\ Compiled
    /\ Len(Cmds) = 2
    /\ Len(FinalSlots(0)) = 7 /\ Formals(0) = 6
    /\ Len(WordOf(0)) = 64 /\ Cmds[1].call.rawReturn
    /\ Len(WordOf(1)) = 32

(***************************************************************************)
(* The claims on AddSubplan and ReplaceState, under SpecNest.  They are    *)
(* about a step: the operation's arguments and the planners before it      *)
(* against its result and the planners after it.                           *)
(***************************************************************************)
\* the planners met from x by following parent pointers, x first, n at most
RECURSIVE Up(_, _)
Up(x, n) ==
    IF x = NoPlanner \/ n = 0 THEN {}
    ELSE {x} \cup Up(parent[x], n - 1)

\* p and the planners reachable from p by parent pointers
Chain(p) == Up(p, NumPlanners)

HasCommandsInput(call) ==
    \E k \in DOMAIN call.method.Inputs : call.method.Inputs[k] = "bytes32[]"

\* C14 as stated: AddSubplan(call, sub) on p returns ErrCyclicPlanner
\* whenever sub is p or reachable from p by parent pointers, whatever the
\* call.
C14_CyclicAsStated ==
    [][\A p \in Planners, sub \in Planners :
          \A call \in SubplanCalls(p, sub) :
              AddSubplan(p, call, sub) /\ sub \in Chain(p)
                  => last'.err = ErrCyclicPlanner]_vars

\* C14: AddSubplan(call, sub) on p, sub being p or reachable from p by
\* parent pointers, returns ErrCyclicPlanner when the call's method has a
\* bytes32[] input and ErrInvalidSubplan when it has none; either way no
\* command is staged and no parent pointer changes.
C14_Cyclic ==
    [][\A p \in Planners, sub \in Planners :
          \A call \in SubplanCalls(p, sub) :
              AddSubplan(p, call, sub) /\ sub \in Chain(p)
                  => /\ last'.err = IF HasCommandsInput(call) THEN ErrCyclicPlanner
                                    ELSE ErrInvalidSubplan
                     /\ UNCHANGED <<commands, parent>>]_vars

\* AddSubplan has just refused, as cyclic, a planner above the receiver
C14_Witness ==
    /\ last.op = "AddSubplan"
    /\ last.err = ErrCyclicPlanner
    /\ last.sub # last.planner
    /\ last.sub \in Chain(last.planner)

\* C15: AddSubplan(call, sub) on p returns ErrInvalidSubplan, staging
\* nothing, when sub is nil or no input of the call's method has type
\* bytes32[]; when sub is a planner that is neither p nor reachable from p
\* by parent pointers and the method has a bytes32[] input, it succeeds,
\* appends exactly one command, of type Subplan and holding the call, to p,
\* and sets sub's parent to p.
C15_AddSubplan ==
    [][\A p \in Planners, sub \in Planners \cup {NoPlanner} :
          \A call \in SubplanCalls(p, sub) :
              AddSubplan(p, call, sub) =>
                  /\ (sub = NoPlanner \/ ~HasCommandsInput(call))
                         => /\ last'.err = ErrInvalidSubplan
                            /\ UNCHANGED <<commands, parent>>
                  /\ (sub # NoPlanner /\ sub \notin Chain(p) /\ HasCommandsInput(call))
                         => /\ ~IsErr(last'.err)
                            /\ Len(commands'[p]) = Len(commands[p]) + 1
                            /\ SubSeq(commands'[p], 1, Len(commands[p])) = commands[p]
                            /\ commands'[p][Len(commands'[p])].cmdType = "Subplan"
                            /\ commands'[p][Len(commands'[p])].call = call
                            /\ \A q \in Planners \ {p} : commands'[q] = commands[q]
                            /\ parent' = [parent EXCEPT ![sub] = p]]_vars

\* AddSubplan has just nested in the receiver a planner that was nested in
\* another planner before
C15_Witness ==
    /\ last.op = "AddSubplan"
    /\ ~IsErr(last.err)
    /\ parent[last.sub] = last.planner
    /\ \E q \in Planners \ {last.planner} :
           \E k \in DOMAIN commands[q] : commands[q][k].sub = last.sub
    /\ commands[last.planner][Len(commands[last.planner])].cmdType = "Subplan"

\* C16: ReplaceState(call) appends a command, of type RawCall, only if the
\* call's method has exactly one output and that output is bytes[]; with no
\* output it returns ErrNoReturnValue, with an output that is not bytes[] a
\* TypeMismatchError expecting bytes[], and with more than one output an
\* error.
C16_ReplaceState ==
    [][\A p \in Planners, call \in ReplaceCalls :
          ReplaceState(p, call) =>
              /\ commands' # commands
                     => /\ Len(call.method.Outputs) = 1
                        /\ call.method.Outputs[1] = "bytes[]"
                        /\ commands'[p] = Append(commands[p],
                                              NewCommand(call, "RawCall", NoPlanner))
              /\ Len(call.method.Outputs) = 0 => last'.err = ErrNoReturnValue
              /\ (Len(call.method.Outputs) = 1 /\ call.method.Outputs[1] # "bytes[]")
                     => /\ last'.err.kind = "TypeMismatchError"
                        /\ last'.err.Expected = "bytes[]"
              /\ Len(call.method.Outputs) > 1 => IsErr(last'.err)]_vars

(***************************************************************************)
(* The claim on the modifiers, under SpecMod.                              *)
(***************************************************************************)
\* the call kind after the modifiers of trail t on a call of kind d: that
\* of the last WithValue or Static, d if there is none
RECURSIVE KindAfter(_, _)
KindAfter(t, d) ==
    IF t = <<>> THEN d
    ELSE IF t[Len(t)].mod = "WithValue" THEN FlagCallWithValue
    ELSE IF t[Len(t)].mod = "Static" THEN FlagStaticCall
    ELSE KindAfter(SubSeq(t, 1, Len(t) - 1), d)

\* C17: a modifier (WithValue, Static, RawReturn) returns a call that is
\* not its receiver and leaves the receiver as it was (flags, value,
\* rawReturn, arguments); after any sequence of modifiers the call kind is
\* that of the last WithValue (CallWithValue) or Static (StaticCall) of the
\* sequence, the contract's default if there is none, the tuple-return bit
\* is set if RawReturn is in the sequence, whatever comes after it, and the
\* arguments are those of the first call.
C17_Modifiers ==
    last.op = "Modify" =>
        /\ last.out # last.recv
        /\ last.heap[last.recv] = last.before
        /\ \A o \in DOMAIN last.trails :
               /\ CallType(last.heap[o].flags)
                      = KindAfter(last.trails[o], defaultFlags(last.heap[1].contract))
               /\ (\E k \in DOMAIN last.trails[o] : last.trails[o][k].mod = "RawReturn")
                      => HasTupleReturn(last.heap[o].flags)
               /\ last.heap[o].args = last.heap[1].args

\* a call made by RawReturn, then WithValue, then Static, whose receiver
\* was of kind CallWithValue
C17_Witness ==
    /\ last.op = "Modify"
    /\ Len(last.trails[last.out]) = 3
    /\ last.trails[last.out][1].mod = "RawReturn"
    /\ last.trails[last.out][2].mod = "WithValue"
    /\ last.trails[last.out][3].mod = "Static"
    /\ CallType(last.before.flags) = FlagCallWithValue
    /\ HasTupleReturn(last.heap[last.out].flags)

\* the word holds every slot byte it was made from: Encode has
\* MaxStandardArgs positions, EncodeExtended WordCapacity
Fits ==
    /\ last.op \in {"Encode", "EncodeExtended", "EncodeCommand"}
    /\ ~IsErr(last.err)
    /\ last.op = "Encode" => Len(last.argSlots) <= MaxStandardArgs
    /\ last.op = "EncodeExtended" => Len(last.argSlots) <= WordCapacity

\* the index in a word (indices from 1) of the byte of argument k (from 0)
ArgPosition(k) == IF k < 6 THEN 5 + k + 1 ELSE 32 + (k - 6) + 1

C20_RoundTrip ==
    (/\ last.op = "Reencode"
     /\ \/ Len(last.cmd) = 32
        \/ Len(last.cmd) = 64 /\ IsExtended(last.cmd[5]))
        => ~IsErr(last.err) /\ last.bytes = last.cmd

(***************************************************************************)
(* The claims on the command list of a planner, under SpecNest.            *)
(***************************************************************************)
\* what makes a command the command it is: its call, type and sub-planner
\* (Plan writes its returnSlot field)
Identity(cmd) == [call |-> cmd.call, cmdType |-> cmd.cmdType, sub |-> cmd.sub]

\* the operation just done appended to planner p
Appended(p) ==
    /\ last.op \in {"Add", "AddSubplan", "ReplaceState"}
    /\ last.planner = p
    /\ ~IsErr(last.err)

IsExtendedWord(w) == Len(w) = 64

\* the index, in the list of 32-byte words, of the first word of entry k
RECURSIVE WordIndex(_, _)
WordIndex(cmds, k) ==
    IF k = 1 THEN 1
    ELSE WordIndex(cmds, k - 1) + (IF IsExtendedWord(cmds[k - 1]) THEN 2 ELSE 1)

\* C21: a step of Add, AddSubplan, ReplaceState or Plan leaves the commands
\* a planner already has in place (CommandAt(i) stays the i-th appended
\* command) and makes Len grow by one exactly when it is a successful
\* append to that planner, so Plan adds, removes and reorders nothing; a
\* successful Plan returns Len entries, entry i carrying the selector and
\* address of command i; CommandCount is Len; and CommandsAsBytes32 lists,
\* in order, one 32-byte word per standard entry and the two halves of each
\* extended entry.
C21_CommandList ==
    [][/\ \A p \in Planners :
              /\ PlannerLen(p)' = PlannerLen(p) + (IF Appended(p)' THEN 1 ELSE 0)
              /\ \A i \in 0..(PlannerLen(p) - 1) :
                     Identity(CommandAt(p, i)') = Identity(CommandAt(p, i))
       /\ Compiled' =>
              /\ Len(last'.plan.Commands) = Len(commands'[last'.planner])
              /\ CommandCount(last'.plan.Commands) = Len(commands'[last'.planner])
              /\ \A i \in 0..(Len(commands'[last'.planner]) - 1) :
                     /\ SubSeq(last'.plan.Commands[i + 1], 1, 4)
                            = Selector(commands'[last'.planner][i + 1].call)
                     /\ SubSeq(last'.plan.Commands[i + 1], 13, 32)
                            = commands'[last'.planner][i + 1].call.contract.address
              /\ Len(CommandsAsBytes32(last'.plan.Commands))
                     = Len(last'.plan.Commands)
                       + Cardinality({k \in DOMAIN last'.plan.Commands :
                                         IsExtendedWord(last'.plan.Commands[k])})
              /\ \A k \in DOMAIN last'.plan.Commands :
                     /\ CommandsAsBytes32(last'.plan.Commands)
                            [WordIndex(last'.plan.Commands, k)]
                            = SubSeq(last'.plan.Commands[k], 1, 32)
                     /\ IsExtendedWord(last'.plan.Commands[k]) =>
                            CommandsAsBytes32(last'.plan.Commands)
                                [WordIndex(last'.plan.Commands, k) + 1]
                                = SubSeq(last'.plan.Commands[k], 33, 64)]_vars

\* a compiled planner holding a nested program, a state replacement and an
\* extended command, after a failed append
C21_Witness ==
    /\ Compiled
    /\ PlannerLen(last.planner) = 3
    /\ \E i, j, k \in Idx :
           /\ Cmds[i + 1].cmdType = "Subplan"
           /\ Cmds[j + 1].cmdType = "RawCall"
           /\ IsExtendedWord(WordOf(k))
    /\ Len(CommandsAsBytes32(last.plan.Commands)) = 4

(***************************************************************************)
(* The claims on failing compiles, under SpecVis.                          *)
(***************************************************************************)
\* the error below a PlanError, the error itself otherwise (errors.Unwrap)
Unwrap(e) == IF e.kind = "PlanError" THEN e.Err ELSE e

\* argument k of command j is an output whose producer is not a command of
\* the planner at an index below j
NotVisible(j, k) ==
    /\ Args(j)[k].kind = "ret"
    /\ ~(Args(j)[k].command[1] = last.planner /\ Args(j)[k].command[2] < j)

Blind == {j \in Idx : \E k \in DOMAIN Args(j) : NotVisible(j, k)}

C23_PlanFailure ==
    (Planned /\ IsErr(last.err)) =>
        /\ last.plan = NilPlan
        /\ last.err.kind = "PlanError"
        /\ last.err.CommandIndex \in Idx
        /\ last.err.Method = Cmds[last.err.CommandIndex + 1].call.method.Name
        /\ Len(last.obs.log) = last.err.CommandIndex
        /\ \/ /\ last.err.Err = ErrReturnValueNotVisible
              /\ last.err.CommandIndex \in Blind
           \/ /\ last.err.Err = ErrTooManyArguments
              /\ Len(Resolved(last.err.CommandIndex)) > MaxExtendedArgs
           \/ /\ last.err.Err = ErrSlotExhausted
              /\ last.obs.nextSlot >= last.cfg.maxStateSlots
              /\ last.cfg.optimizeSlots => last.obs.freeSlots = <<>>

\* a compile refused at its second command for its 33 argument slots, and
\* one refused at its third command for want of a slot
C23_Witness ==
    /\ Planned
    /\ last.plan = NilPlan
    /\ \/ last.err = PlanError(1, "sum32", ErrTooManyArguments)
       \/ last.err = PlanError(2, "multiply", ErrSlotExhausted)
    /\ Len(Cmds) = 3

\* the commands whose output is taken for the last time by command i, the
\* free pool and the slot count command i starts from, and the argument
\* positions of command i holding a literal it is the first to use
Expiring(i) == {j \in Idx : Consumed(j) /\ LastUse(j) = i}
PoolAt(i) == IF i = 0 THEN <<>> ELSE Log(i - 1).freeSlots
SlotsAt(i) == IF i = 0 THEN 0 ELSE Log(i - 1).nextSlot
NewLits(i) ==
    {k \in DOMAIN Resolved(i) :
        /\ Resolved(i)[k].kind = "lit"
        /\ Resolved(i)[k].data \notin Payloads(0..(i - 1))
        /\ \A k2 \in 1..(k - 1) :
              Resolved(i)[k2].kind = "lit" => Resolved(i)[k2].data # Resolved(i)[k].data}

\* the rank of the allocation made for the new literal at position k of
\* command i (the return slot is allocated first), and the slot the n-th
\* allocation of command i takes: the pool from its end, then new slots
Rank(i, k) ==
    Cardinality({k2 \in NewLits(i) : k2 <= k}) + (IF Consumed(i) THEN 1 ELSE 0)
Taken(i, n) ==
    IF n <= Len(PoolAt(i)) THEN PoolAt(i)[Len(PoolAt(i)) - n + 1]
    ELSE SlotsAt(i) + (n - Len(PoolAt(i)) - 1)

\* C24: with slot optimization a slot that expires at command i is not in
\* the free pool while command i is compiled, is neither the return slot of
\* command i nor the slot of a literal command i is the first to use, and is
\* in the pool once command i is encoded; the allocations of a command take
\* the pool its predecessor left from the end (the slot freed last first)
\* and create a slot only when the pool is used up.
C24_Expiry ==
    (Compiled /\ last.cfg.optimizeSlots) =>
        \A i \in Idx :
            /\ \A j \in Expiring(i) :
                  /\ \A n \in DOMAIN Log(i).freeBefore :
                        Log(i).freeBefore[n] # SlotOf(ReturnByte(j))
                  /\ Consumed(i) => SlotOf(ReturnByte(i)) # SlotOf(ReturnByte(j))
                  /\ \A k \in NewLits(i) :
                        SlotOf(ArgByte(i, k)) # SlotOf(ReturnByte(j))
                  /\ \E n \in DOMAIN Log(i).freeSlots :
                        Log(i).freeSlots[n] = SlotOf(ReturnByte(j))
            /\ Log(i).freeBefore = PoolAt(i)
            /\ Consumed(i) => SlotOf(ReturnByte(i)) = Taken(i, 1)
            /\ \A k \in NewLits(i) : SlotOf(ArgByte(i, k)) = Taken(i, Rank(i, k))
            /\ Log(i).nextSlot =
                  SlotsAt(i) + Max({0, Cardinality(NewLits(i))
                                          + (IF Consumed(i) THEN 1 ELSE 0)
                                          - Len(PoolAt(i))})

\* a compile in which two slots wait in the pool and the next command's new
\* literal takes the one freed last, no slot being created
C24_Witness ==
    /\ Compiled
    /\ last.cfg.optimizeSlots
    /\ \E i \in Idx \ {0} :
          /\ Len(PoolAt(i)) = 2
          /\ Expiring(i - 1) # {}
          /\ \E k \in NewLits(i) : SlotOf(ArgByte(i, k)) = PoolAt(i)[2]
          /\ Log(i).nextSlot = SlotsAt(i)

\* the map the liveness pass computes for the planner compiled last, and the
\* commands of that planner taking the output of command id
Visibility == analyzeVisibility(Cmds)
Takers(id) ==
    {j \in Idx : \E k \in DOMAIN Args(j) :
        Args(j)[k].kind = "ret" /\ Args(j)[k].command = id}

\* C25: the liveness pass has an entry exactly for the commands whose output
\* is an argument of some command of the planner, and the entry is the
\* largest index of a command taking that output.
C25_Liveness ==
    Planned =>
        /\ \A id \in DOMAIN Visibility :
              /\ Takers(id) # {}
              /\ Visibility[id] \in Takers(id)
              /\ \A j \in Takers(id) : j <= Visibility[id]
        /\ \A q \in 1..NumPlanners : \A i \in 0..MaxVisCmds :
              Takers(<<q, i>>) # {} => <<q, i>> \in DOMAIN Visibility

\* a planner with an output taken by two commands and an output taken by none
C25_Witness ==
    /\ Planned
    /\ \E id \in DOMAIN Visibility : Cardinality(Takers(id)) = 2
    /\ \E i \in Idx : HasReturnValue(Cmds[i + 1].call) /\ Id(i) \notin DOMAIN Visibility

\* C26: DecodeCommand on the word EncodeCommand made from a selector, a flag
\* byte, a list of argument slot bytes within the encoder's limit, a return
\* slot byte and an address returns that selector, the call-kind bits of
\* that flag byte, that list of slot bytes, that return slot byte and that
\* address.
C26_EncodeDecode ==
    [][(/\ last.op = "EncodeCommand"
        /\ ~IsErr(last.err)
        /\ last'.op = "DecodeCommand"
        /\ last'.cmd = last.bytes)
       => /\ ~IsErr(last'.err)
          /\ last'.selector = last.selector
          /\ CallType(last'.flags) = CallType(last.flags)
          /\ last'.argSlots = last.argSlots
          /\ last'.returnSlot = last.returnSlot
          /\ last'.address = last.address]_vars

\* C27: in a compiled program no literal argument of a command (the
\* appended ETH-value literal included) is resolved to a slot that an
\* earlier command has as its return slot, so that the literal's bytes are
\* still in the slot when the command reads it.
C27_LiteralsIntact ==
    Compiled =>
        \A j \in Idx : \A k \in DOMAIN Resolved(j) :
            Resolved(j)[k].kind = "lit" =>
                \A i \in 0..(j - 1) :
                    \/ ReturnByte(i) = NoReturnSlot
                    \/ SlotOf(ReturnByte(i)) # SlotOf(ArgByte(j, k))

\* C28: in a compiled program an argument of command j that is the output
\* of command i has the slot byte emitted as the return slot byte of command
\* i, index and dynamic bit, and no command between i and j has a return
\* slot of that index.
C28_OutputsIntact ==
    Compiled =>
        \A j \in Idx : \A k \in DOMAIN Args(j) : \A i \in 0..(j - 1) :
            (Args(j)[k].kind = "ret" /\ Args(j)[k].command = Id(i)) =>
                /\ ReturnByte(i) # NoReturnSlot
                /\ ArgByte(j, k) = ReturnByte(i)
                /\ \A m \in (i + 1)..(j - 1) :
                      \/ ReturnByte(m) = NoReturnSlot
                      \/ SlotOf(ReturnByte(m)) # SlotOf(ReturnByte(i))

\* a compiled program in which a command takes a dynamic output across a
\* command that has a return slot of its own
C28_Witness ==
    /\ Compiled
    /\ \E j \in Idx : \E k \in DOMAIN Args(j) :
          /\ Args(j)[k].kind = "ret"
          /\ Args(j)[k].command = Id(j - 2)
          /\ ReturnByte(j - 1) # NoReturnSlot
    /\ \E j \in Idx : \E k \in DOMAIN Args(j) :
          Args(j)[k].kind = "ret" /\ DynamicBit(ArgByte(j, k))

\* the compile of the planner compiled last, under the options of that
\* compile with slot optimization switched on or off
Flipped(optimize) ==
    PlanResult(last.planner, Cmds, [last.cfg EXCEPT !.optimizeSlots = optimize])

\* C29: a planner that compiles without slot optimization compiles with it
\* under the same other options, to as many commands and to a state array
\* that is no longer.
C29_OptimizationSafe ==
    (Planned /\ ~IsErr(Flipped(FALSE).err)) =>
        /\ ~IsErr(Flipped(TRUE).err)
        /\ Len(Flipped(TRUE).plan.Commands) = Len(Flipped(FALSE).plan.Commands)
        /\ Len(Flipped(TRUE).plan.State) <= Len(Flipped(FALSE).plan.State)

\* a compile without slot optimization whose optimized counterpart has a
\* shorter state array
C29_Witness ==
    /\ Compiled
    /\ ~last.cfg.optimizeSlots
    /\ Flipped(FALSE).plan = last.plan
    /\ Len(Flipped(TRUE).plan.State) < Len(last.plan.State)

\* C30: an AddSubplan or a ReplaceState that returns an error changes no
\* command list and no parent pointer; an Add returns no error, appends one
\* command holding its call to its planner and nothing else, and returns a
\* handle on that command exactly when the method of the call has an output.
C30_Staging ==
    [][/\ (last'.op \in {"AddSubplan", "ReplaceState"} /\ IsErr(last'.err)) =>
              /\ commands' = commands
              /\ parent' = parent
       /\ last'.op = "Add" =>
              /\ ~IsErr(last'.err)
              /\ parent' = parent
              /\ \A q \in Planners \ {last'.planner} : commands'[q] = commands[q]
              /\ Len(commands'[last'.planner]) = Len(commands[last'.planner]) + 1
              /\ SubSeq(commands'[last'.planner], 1, Len(commands[last'.planner]))
                    = commands[last'.planner]
              /\ (last'.rv # NilValue) <=>
                    Len(commands'[last'.planner][Len(commands'[last'.planner])]
                            .call.method.Outputs) >= 1
              /\ last'.rv # NilValue =>
                    last'.rv.command = <<last'.planner, Len(commands[last'.planner])>>
      ]_vars

\* an AddSubplan refused on a planner that holds a command staged by Add
\* and is the parent of another planner
C30_Witness ==
    /\ last.op = "AddSubplan"
    /\ IsErr(last.err)
    /\ \E i \in DOMAIN commands[last.planner] :
          commands[last.planner][i].cmdType = "Call"
    /\ \E q \in Planners : parent[q] = last.planner

====
